---- MODULE Spec2Model ----
(***************************************************************************)
(* The JA4+ dictionary engine (Dictionary/dictionary_model.py): the class  *)
(* JA4PlusDatabase with its exact-match index, load_database and predict,  *)
(* and the evaluation harness evaluate_test_set_to_file that scores it on  *)
(* the test partition of a dataset.                                        *)
(*                                                                         *)
(* A Python str is a sequence of one-character strings; a JSON value of a  *)
(* database row is null or a str; a row is a function from the field names *)
(* it carries to JSON values.                                              *)
(***************************************************************************)
EXTENDS Integers, Sequences, FiniteSets, TLC

VARIABLES db, db_exists, eng, last, dataset, ev

vars == <<db, db_exists, eng, last, dataset, ev>>

(***************************************************************************)
(* Python values                                                           *)
(***************************************************************************)
Null == [t |-> "null"]

Str(s) == [t |-> "str", v |-> s]

EmptyStr == <<>>

\* whitespace characters of the alphabet in use (str.strip() removes them)
Whitespace == {" "}

\* float("nan"), the value pandas gives a cell whose row lacks the column
NaN == [t |-> "nan"]

\* bool(x): None and "" are falsy, a non-empty str and nan are truthy
Truthy(x) == x.t = "nan" \/ (x.t = "str" /\ x.v # EmptyStr)

\* Python's `a or b`
PyOr(a, b) == IF Truthy(a) THEN a ELSE b

\* dict.get(key): None when the key is missing
Get(row, key) == IF key \in DOMAIN row THEN row[key] ELSE Null

RECURSIVE LStrip(_)
LStrip(s) == IF s # <<>> /\ Head(s) \in Whitespace THEN LStrip(Tail(s)) ELSE s

RECURSIVE RStrip(_)
RStrip(s) ==
    IF s # <<>> /\ s[Len(s)] \in Whitespace THEN RStrip(SubSeq(s, 1, Len(s) - 1)) ELSE s

\* str.strip()
Strip(s) == RStrip(LStrip(s))

\* (row.get(key) or "").strip()
Field(row, key) == Strip(PyOr(Get(row, key), Str(EmptyStr)).v)

\* (row.get("ja4ts_fingerprint") or row.get("ja4t_fingerprint") or "").strip()
Ja4tsField(row) ==
    Strip(PyOr(PyOr(Get(row, "ja4ts_fingerprint"), Get(row, "ja4t_fingerprint")),
               Str(EmptyStr)).v)

Sep == <<"|">>

\* f"{ja4}|{ja4s}" and f"{ja4}|{ja4s}|{ja4ts}"
Join2(a, b) == a \o Sep \o b

Join3(a, b, c) == a \o Sep \o b \o Sep \o c

(***************************************************************************)
(* JA4PlusDatabase                                                         *)
(***************************************************************************)
valid_modes_raw_capture ==
    {"ja4_only", "ja4s_only", "ja4t_only", "ja4ts_only", "ja4_ja4s", "ja4_ja4s_ja4ts"}

valid_modes == {"ja4_only", "ja4_ja4s", "ja4_ja4s_ja4ts"}

EmptyIndex == <<>>

\* the index key load_database constructs for one row (None when the mode's
\* presence rule fails)
IndexKey(mode, ja4, ja4s, ja4ts) ==
    IF mode = "ja4_only" /\ ja4 # EmptyStr THEN Str(ja4)
    ELSE IF mode = "ja4_ja4s" /\ (ja4 # EmptyStr \/ ja4s # EmptyStr)
         THEN Str(Join2(ja4, ja4s))
    ELSE IF mode = "ja4_ja4s_ja4ts"
            /\ (ja4 # EmptyStr \/ ja4s # EmptyStr \/ ja4ts # EmptyStr)
         THEN Str(Join3(ja4, ja4s, ja4ts))
    ELSE Null

RowKeyUnstripped(mode, row) ==
    IndexKey(mode,
             PyOr(Get(row, "ja4_fingerprint"), Str(EmptyStr)).v,
             PyOr(Get(row, "ja4s_fingerprint"), Str(EmptyStr)).v,
             PyOr(PyOr(Get(row, "ja4ts_fingerprint"), Get(row, "ja4t_fingerprint")),
                  Str(EmptyStr)).v)

RowKey(mode, row) ==
    IndexKey(mode, Field(row, "ja4_fingerprint"), Field(row, "ja4s_fingerprint"),
             Ja4tsField(row))

\* a load that does not trim the application label
MetadataRawApplication(row) ==
    [Application |-> PyOr(Get(row, "application"), Str(EmptyStr)).v,
     Library     |-> Field(row, "library"),
     Device      |-> Field(row, "device"),
     OS          |-> Field(row, "os"),
     UserAgent   |-> Field(row, "user_agent_string"),
     Notes       |-> Field(row, "notes")]

\* the label metadata load_database stores for one row
Metadata(row) ==
    [Application |-> Field(row, "application"),
     Library     |-> Field(row, "library"),
     Device      |-> Field(row, "device"),
     OS          |-> Field(row, "os"),
     UserAgent   |-> Field(row, "user_agent_string"),
     Notes       |-> Field(row, "notes")]

\* self.index[index_key].append(...), creating the bucket when absent
AppendPrepending(index, key, rec) ==
    IF key \in DOMAIN index
    THEN [index EXCEPT ![key] = <<rec>> \o @]
    ELSE index @@ (key :> <<rec>>)

AppendRecord(index, key, rec) ==
    IF key \in DOMAIN index
    THEN [index EXCEPT ![key] = Append(@, rec)]
    ELSE index @@ (key :> <<rec>>)

\* one iteration of `for row in data`
LoadRow(mode, index, row) ==
    LET index_key == RowKey(mode, row)
    IN  IF Truthy(index_key) THEN AppendRecord(index, index_key.v, Metadata(row))
        ELSE index

\* the loop `for row in data` of load_database
RECURSIVE LoadRows(_, _, _)
LoadRows(mode, index, rows) ==
    IF rows = <<>> THEN index
    ELSE LoadRows(mode, LoadRow(mode, index, Head(rows)), Tail(rows))

(***************************************************************************)
(* predict                                                                 *)
(***************************************************************************)
\* the keys of a stored record in the order sorted(match.items()) lists them
SortedFieldNames == <<"Application", "Device", "Library", "Notes", "OS", "UserAgent">>

\* tuple(sorted(match.items())): the (key, value) pairs by ascending key
MatchTuple(match) ==
    [i \in 1..Len(SortedFieldNames) |-> <<SortedFieldNames[i], match[SortedFieldNames[i]]>>]

\* dict(item): the pairs back to a dict
Dict(item) ==
    [k \in {item[i][1] : i \in 1..Len(item)} |->
        item[CHOOSE i \in 1..Len(item) :
                item[i][1] = k /\ \A j \in (i + 1)..Len(item) : item[j][1] # k][2]]

\* frequency_map after one more `match`: a dict keeps its keys in insertion
\* order, so the map is the sequence of its (match_tuple, count) items
CountOne(frequency_map, match_tuple) ==
    IF \E i \in 1..Len(frequency_map) : frequency_map[i][1] = match_tuple
    THEN [i \in 1..Len(frequency_map) |->
            IF frequency_map[i][1] = match_tuple
            THEN <<match_tuple, frequency_map[i][2] + 1>>
            ELSE frequency_map[i]]
    ELSE Append(frequency_map, <<match_tuple, 1>>)

\* the loop `for match in all_matches`
RECURSIVE FrequencyMap(_, _)
FrequencyMap(frequency_map, all_matches) ==
    IF all_matches = <<>> THEN frequency_map
    ELSE FrequencyMap(CountOne(frequency_map, MatchTuple(Head(all_matches))),
                      Tail(all_matches))

InsertAscending(sorted, item) ==
    LET ahead == Cardinality({i \in 1..Len(sorted) : sorted[i][2] <= item[2]})
    IN  SubSeq(sorted, 1, ahead) \o <<item>> \o SubSeq(sorted, ahead + 1, Len(sorted))

\* a sort that is not stable: `item` goes ahead of the items of its own count
InsertAheadOfEqual(sorted, item) ==
    LET ahead == Cardinality({i \in 1..Len(sorted) : sorted[i][2] > item[2]})
    IN  SubSeq(sorted, 1, ahead) \o <<item>> \o SubSeq(sorted, ahead + 1, Len(sorted))

\* one insertion of the stable descending sort: `item` goes behind every item
\* whose count is at least its own
InsertByCount(sorted, item) ==
    LET ahead == Cardinality({i \in 1..Len(sorted) : sorted[i][2] >= item[2]})
    IN  SubSeq(sorted, 1, ahead) \o <<item>> \o SubSeq(sorted, ahead + 1, Len(sorted))

\* sorted(frequency_map.items(), key=lambda item: item[1], reverse=True)
RECURSIVE SortedMatches(_, _)
SortedMatches(sorted, items) ==
    IF items = <<>> THEN sorted
    ELSE SortedMatches(InsertByCount(sorted, Head(items)), Tail(items))

\* the slice bound of sorted_matches[:5], and the 5 of additional_hidden
TopN == 5

\* seq[:n]
Slice(seq, n) == SubSeq(seq, 1, IF Len(seq) < n THEN Len(seq) ELSE n)

\* match_dict of one (item, count) of sorted_matches
MatchDict(entry) == Dict(entry[1]) @@ ("occurrences_in_database" :> entry[2])

AdditionalHiddenOffByOne(sorted_matches) ==
    IF Len(sorted_matches) >= TopN THEN Len(sorted_matches) - TopN + 1 ELSE 0

\* len(sorted_matches) - 5 if len(sorted_matches) > 5 else 0
AdditionalHidden(sorted_matches) ==
    IF Len(sorted_matches) > TopN THEN Len(sorted_matches) - TopN ELSE 0

\* the `if target_key in self.index` branch of predict
MatchResult(all_matches) ==
    LET sorted_matches == SortedMatches(<<>>, FrequencyMap(<<>>, all_matches))
        top            == Slice(sorted_matches, TopN)
    IN  [result |-> "match",
         top_matches |-> [i \in 1..Len(top) |-> MatchDict(top[i])],
         additional_results_count |-> AdditionalHidden(sorted_matches),
         total_unique_combinations_found |-> Len(sorted_matches)]

\* target_key of predict once the mode's guard has passed (None when no branch
\* assigns it)
TargetKey(mode, ja4, ja4s, ja4ts) ==
    IF mode = "ja4_only" THEN Str(ja4)
    ELSE IF mode = "ja4_ja4s" THEN Str(Join2(ja4, ja4s))
    ELSE IF mode = "ja4_ja4s_ja4ts" THEN Str(Join3(ja4, ja4s, ja4ts))
    ELSE Null

\* the early returns of predict: the reason, or None when the guard passes
MissingReasonAnyEmpty(mode, ja4, ja4s, ja4ts) ==
    IF mode = "ja4_only" /\ ja4 = EmptyStr
    THEN Str("Missing required JA4 string")
    ELSE IF mode = "ja4_ja4s" /\ (ja4 = EmptyStr \/ ja4s = EmptyStr)
    THEN Str("Missing required JA4 or JA4S strings for this mode")
    ELSE IF mode = "ja4_ja4s_ja4ts"
            /\ (ja4 = EmptyStr \/ ja4s = EmptyStr \/ ja4ts = EmptyStr)
    THEN Str("Missing required strings for this mode")
    ELSE Null

MissingReason(mode, ja4, ja4s, ja4ts) ==
    IF mode = "ja4_only" /\ ja4 = EmptyStr
    THEN Str("Missing required JA4 string")
    ELSE IF mode = "ja4_ja4s" /\ ja4 = EmptyStr /\ ja4s = EmptyStr
    THEN Str("Missing required JA4 or JA4S strings for this mode")
    ELSE IF mode = "ja4_ja4s_ja4ts"
            /\ ja4 = EmptyStr /\ ja4s = EmptyStr /\ ja4ts = EmptyStr
    THEN Str("Missing required strings for this mode")
    ELSE Null

\* predict(self, ja4, ja4s, ja4ts)
Predict(self, ja4, ja4s, ja4ts) ==
    LET reason     == MissingReason(self.mode, ja4, ja4s, ja4ts)
        target_key == TargetKey(self.mode, ja4, ja4s, ja4ts)
    IN  IF reason # Null THEN [result |-> "unknown", reason |-> reason.v]
        ELSE IF target_key # Null /\ target_key.v \in DOMAIN self.index
        THEN MatchResult(self.index[target_key.v])
        ELSE [result |-> "unknown"]

(***************************************************************************)
(* The database file and the queries                                       *)
(***************************************************************************)
Row1(k1, v1) == k1 :> v1

Row2(k1, v1, k2, v2) == (k1 :> v1) @@ (k2 :> v2)

Row3(k1, v1, k2, v2, k3, v3) == (k1 :> v1) @@ (k2 :> v2) @@ (k3 :> v3)

Row4(k1, v1, k2, v2, k3, v3, k4, v4) ==
    (k1 :> v1) @@ (k2 :> v2) @@ (k3 :> v3) @@ (k4 :> v4)

\* rows of a database file that differ in their fingerprint fields: missing,
\* null, empty, padded with whitespace, holding the separator, JA4T beside JA4TS
KeyRows ==
    { <<>>,
      Row3("ja4_fingerprint", Str(<<" ">>), "ja4s_fingerprint", Str(<<>>),
           "ja4ts_fingerprint", Null),
      Row2("ja4_fingerprint", Str(<<"A">>), "application", Str(<<"x">>)),
      Row2("ja4_fingerprint", Str(<<"A", " ">>), "application", Str(<<" ", "x">>)),
      Row2("ja4_fingerprint", Str(<<"A">>), "application", Null),
      Row2("ja4_fingerprint", Str(<<"A", "|">>), "ja4s_fingerprint", Str(<<>>)),
      Row2("ja4_fingerprint", Str(<<"A">>), "ja4ts_fingerprint", Str(<<"|">>)),
      Row2("ja4_fingerprint", Str(<<"A">>), "ja4s_fingerprint", Str(<<"|">>)),
      Row2("ja4_fingerprint", Null, "ja4s_fingerprint", Str(<<"B">>)),
      Row1("ja4t_fingerprint", Str(<<"T">>)),
      Row4("ja4_fingerprint", Str(<<"A">>), "ja4s_fingerprint", Str(<<"B">>),
           "ja4ts_fingerprint", Str(<<>>), "ja4t_fingerprint", Str(<<"T">>)),
      Row4("ja4_fingerprint", Str(<<"A">>), "ja4s_fingerprint", Str(<<"B">>),
           "ja4ts_fingerprint", Str(<<"S">>), "ja4t_fingerprint", Str(<<"T">>)),
      Row4("ja4_fingerprint", Str(<<"A">>), "ja4s_fingerprint", Str(<<"B">>),
           "ja4ts_fingerprint", Str(<<" ">>), "ja4t_fingerprint", Str(<<"T">>)) }

\* the longest database file of Spec
MaxRows == 2

\* the sequences over S of length at most n
RECURSIVE SeqsUpTo(_, _)
SeqsUpTo(S, n) ==
    IF n = 0 THEN {<<>>}
    ELSE LET shorter == SeqsUpTo(S, n - 1)
         IN  shorter \cup {Append(s, x) : s \in {t \in shorter : Len(t) = n - 1}, x \in S}

\* the fingerprint arguments a caller passes for a row: null and missing
\* fields as "", JA4TS falling back to JA4T, nothing stripped
RawQuery(row) ==
    [ja4   |-> PyOr(Get(row, "ja4_fingerprint"), Str(EmptyStr)).v,
     ja4s  |-> PyOr(Get(row, "ja4s_fingerprint"), Str(EmptyStr)).v,
     ja4ts |-> PyOr(PyOr(Get(row, "ja4ts_fingerprint"), Get(row, "ja4t_fingerprint")),
                    Str(EmptyStr)).v]

Query(a, b, c) == [ja4 |-> a, ja4s |-> b, ja4ts |-> c]

\* queries that are no row of the database: nothing given, one component
\* given, a component holding the separator, an unknown fingerprint
Probes ==
    { Query(<<>>, <<>>, <<>>), Query(<<"A">>, <<>>, <<>>), Query(<<>>, <<"B">>, <<>>),
      Query(<<>>, <<>>, <<"T">>), Query(<<"A", "|">>, <<>>, <<>>),
      Query(<<"Z">>, <<>>, <<>>) }

Queries == {RawQuery(db[i]) : i \in 1..Len(db)} \cup Probes

(***************************************************************************)
(* The engine instances                                                    *)
(***************************************************************************)
EngineIds == {"e1", "e2", "e3"}

\* the mode names a caller passes to the constructor
ModeArgs == valid_modes \cup {"ja4s_only"}

\* how often load_database is called on one instance
MaxLoads == 2

NoEngine == [st |-> "none"]

NoCall == [op |-> "none"]

\* the runs of the evaluation harness, and a run not started
RunIds == {"r1", "r2"}

\* the runs of the harness, the one run of the raw-capture analysis, the one
\* run of the random forest and the one run of the pipeline
Processes == RunIds \cup {"analysis", "rf", "main"}

NoRun == [pc |-> "idle"]

\* self.index = {}
NewIndexShared(e) ==
    IF \E o \in EngineIds : eng[o].st = "ready"
    THEN eng[CHOOSE o \in EngineIds : eng[o].st = "ready"].index
    ELSE EmptyIndex

NewIndex(e) == EmptyIndex

\* the default db_path, whose file is db, and a second database file
DefaultDbPath == "ja4+_db.json"

EgenlagdDbPath == "egenlagd_db.json"

DbPaths == {DefaultDbPath, EgenlagdDbPath}

EgenlagdDb ==
    << Row2("ja4_fingerprint", Str(<<"A">>), "application", Str(<<"y">>)) >>

\* json.load of the file at db_path
FileRows(db_path) == IF db_path = DefaultDbPath THEN db ELSE EgenlagdDb

\* eng and last after `db = JA4PlusDatabase(mode=mode, db_path=db_path)`,
\* whatever db was bound to before
Instantiated(e, mode, db_path) ==
    IF mode \in valid_modes
    THEN /\ eng' = [eng EXCEPT ![e] = [st |-> "ready", mode |-> mode,
                                       db_path |-> db_path,
                                       index |-> NewIndex(e), loads |-> 0]]
         /\ last' = [op |-> "init", e |-> e, mode |-> mode, raised |-> "none"]
    ELSE /\ eng' = eng
         /\ last' = [op |-> "init", e |-> e, mode |-> mode, raised |-> "ValueError"]

\* the same for an instance that did not exist before
Constructed(e, mode, db_path) ==
    /\ eng[e].st = "none"
    /\ Instantiated(e, mode, db_path)

\* JA4PlusDatabase(mode=mode)
Construct(e, mode) ==
    /\ Constructed(e, mode, DefaultDbPath)
    /\ UNCHANGED <<db, db_exists, dataset, ev>>

PathExistsUnchecked(db_path) == TRUE

\* os.path.exists(self.db_path)
PathExists(db_path) == IF db_path = DefaultDbPath THEN db_exists ELSE TRUE

\* a load_database that empties self.index before it reads the file
LoadedAfresh(e) ==
    /\ eng[e].st = "ready"
    /\ eng[e].loads < MaxLoads
    /\ IF ~PathExists(eng[e].db_path)
       THEN /\ eng' = eng
            /\ last' = [op |-> "load_database", e |-> e, raised |-> "FileNotFoundError"]
       ELSE /\ eng' = [eng EXCEPT ![e].index =
                                      LoadRows(eng[e].mode, EmptyIndex, FileRows(eng[e].db_path)),
                                  ![e].loads = @ + 1]
            /\ last' = [op |-> "load_database", e |-> e, raised |-> "none"]

\* eng and last after self.load_database(); `loads` counts the calls that
\* returned
Loaded(e) ==
    /\ eng[e].st = "ready"
    /\ eng[e].loads < MaxLoads
    /\ IF ~PathExists(eng[e].db_path)
       THEN /\ eng' = eng
            /\ last' = [op |-> "load_database", e |-> e, raised |-> "FileNotFoundError"]
       ELSE /\ eng' = [eng EXCEPT ![e].index =
                                      LoadRows(eng[e].mode, @, FileRows(eng[e].db_path)),
                                  ![e].loads = @ + 1]
            /\ last' = [op |-> "load_database", e |-> e, raised |-> "none"]

\* self.load_database()
LoadDatabase(e) ==
    /\ Loaded(e)
    /\ UNCHANGED <<db, db_exists, dataset, ev>>

\* all_matches of predict, the bucket of target_key
AllMatches(self, ja4, ja4s, ja4ts) ==
    LET target_key == TargetKey(self.mode, ja4, ja4s, ja4ts)
    IN  IF MissingReason(self.mode, ja4, ja4s, ja4ts) = Null /\ target_key # Null
           /\ target_key.v \in DOMAIN self.index
        THEN self.index[target_key.v]
        ELSE <<>>

\* a predict that wrote each count into the stored record itself
\* (match["occurrences_in_database"] = count)
IndexAnnotatedByPredict(self, ja4, ja4s, ja4ts) ==
    LET all_matches == AllMatches(self, ja4, ja4s, ja4ts)
    IN  IF all_matches = <<>> THEN self.index
        ELSE [self.index EXCEPT ![TargetKey(self.mode, ja4, ja4s, ja4ts).v] =
                [i \in 1..Len(all_matches) |->
                    all_matches[i] @@ ("occurrences_in_database" :>
                        Cardinality({j \in 1..Len(all_matches) : all_matches[j] = all_matches[i]}))]]

\* self.index when predict returns: predict reads the bucket, counts tuples
\* built from its records and returns new dicts; it assigns to no stored object
IndexAfterPredict(self, ja4, ja4s, ja4ts) == self.index

\* self.predict(ja4, ja4s, ja4ts)
PredictCall(e, q) ==
    /\ eng[e].st = "ready"
    /\ last' = [op |-> "predict", e |-> e, q |-> q,
                res |-> Predict(eng[e], q.ja4, q.ja4s, q.ja4ts)]
    /\ eng' = [eng EXCEPT ![e].index = IndexAfterPredict(eng[e], q.ja4, q.ja4s, q.ja4ts)]
    /\ UNCHANGED <<db, db_exists, dataset, ev>>

InitEngines ==
    /\ eng = [e \in EngineIds |-> NoEngine]
    /\ last = NoCall

\* no dataset file and no run of the harness
InitNoEvaluation ==
    /\ dataset = <<>>
    /\ ev = [p \in Processes |-> NoRun]

\* the database file is missing, or holds up to MaxRows rows
Init ==
    /\ db_exists \in BOOLEAN
    /\ db \in (IF db_exists THEN SeqsUpTo(KeyRows, MaxRows) ELSE {<<>>})
    /\ InitEngines
    /\ InitNoEvaluation

Next ==
    \/ \E mode \in ModeArgs : Construct("e1", mode)
    \/ LoadDatabase("e1")
    \/ \E q \in Queries : PredictCall("e1", q)

Spec == Init /\ [][Next]_vars

(***************************************************************************)
(* A database whose rows share one fingerprint and differ in their label   *)
(* metadata: the collisions predict ranks                                  *)
(***************************************************************************)
\* RankRows[4] is RankRows[1] padded with whitespace: the same key and the same
\* stored record
RankRows ==
    << Row2("ja4_fingerprint", Str(<<"A">>), "application", Str(<<"x">>)),
       Row2("ja4_fingerprint", Str(<<"A">>), "application", Str(<<"y">>)),
       Row3("ja4_fingerprint", Str(<<"A">>), "application", Str(<<"x">>),
            "os", Str(<<"o">>)),
       Row2("ja4_fingerprint", Str(<<"A", " ">>), "application", Str(<<" ", "x">>)),
       Row3("ja4_fingerprint", Str(<<"A">>), "application", Null,
            "notes", Str(<<"n">>)),
       Row3("ja4_fingerprint", Str(<<"A">>), "application", Str(<<"y">>),
            "library", Str(<<"l">>)),
       Row3("ja4_fingerprint", Str(<<"A">>), "application", Str(<<"x">>),
            "device", Str(<<"d">>)),
       Row2("ja4_fingerprint", Str(<<"A">>), "user_agent_string", Str(<<"u">>)) >>

\* the longest database file of SpecRank
MaxRankRows == 7

MaxOf(S) == IF S = {} THEN 0 ELSE CHOOSE x \in S : \A y \in S : y <= x

\* the sequences of at most n indexes into RankRows in which the indexes
\* appear first in ascending order (each database up to the naming of its rows)
RECURSIVE RankShapes(_)
RankShapes(n) ==
    IF n = 0 THEN {<<>>}
    ELSE LET shorter == RankShapes(n - 1)
         IN  shorter \cup
             UNION { {Append(s, l) : l \in 1..(IF MaxOf({s[i] : i \in 1..Len(s)}) < Len(RankRows)
                                               THEN MaxOf({s[i] : i \in 1..Len(s)}) + 1
                                               ELSE Len(RankRows))}
                     : s \in {t \in shorter : Len(t) = n - 1} }

InitRank ==
    /\ db_exists = TRUE
    /\ db \in {[i \in 1..Len(s) |-> RankRows[s[i]]] : s \in RankShapes(MaxRankRows)}
    /\ InitEngines
    /\ InitNoEvaluation

\* the fingerprints of the rows, and no fingerprint at all
RankQueries == {RawQuery(db[i]) : i \in 1..Len(db)} \cup {Query(<<>>, <<>>, <<>>)}

NextRank ==
    \/ \E mode \in ModeArgs : Construct("e1", mode)
    \/ LoadDatabase("e1")
    \/ \E q \in RankQueries : PredictCall("e1", q)

SpecRank == InitRank /\ [][NextRank]_vars

(***************************************************************************)
(* Two instances over one database                                         *)
(***************************************************************************)
PairRows ==
    { Row3("ja4_fingerprint", Str(<<" ">>), "ja4s_fingerprint", Str(<<>>),
           "ja4ts_fingerprint", Null),
      Row2("ja4_fingerprint", Str(<<"A">>), "application", Str(<<"x">>)),
      Row2("ja4_fingerprint", Str(<<"A">>), "application", Null),
      Row2("ja4_fingerprint", Null, "ja4s_fingerprint", Str(<<"B">>)) }

InitPair ==
    /\ db_exists = TRUE
    /\ db \in SeqsUpTo(PairRows, MaxRows)
    /\ InitEngines
    /\ InitNoEvaluation

NextPair ==
    \/ \E e \in {"e1", "e2"}, mode \in ModeArgs : Construct(e, mode)
    \/ \E e \in {"e1", "e2"} : LoadDatabase(e)
    \/ \E e \in {"e1", "e2"}, q \in Queries : PredictCall(e, q)

SpecPair == InitPair /\ [][NextPair]_vars

(***************************************************************************)
(* One instance per mode over one database (test_dictionary.py builds      *)
(* db_mode1, db_mode2 and db_mode3 this way)                               *)
(***************************************************************************)
ModeOf == ("e1" :> "ja4_only") @@ ("e2" :> "ja4_ja4s") @@ ("e3" :> "ja4_ja4s_ja4ts")

ModeRows ==
    { Row2("ja4_fingerprint", Str(<<"A">>), "application", Str(<<"x">>)),
      Row2("ja4_fingerprint", Str(<<"A", "|">>), "ja4s_fingerprint", Str(<<>>)),
      Row2("ja4_fingerprint", Str(<<"A">>), "ja4ts_fingerprint", Str(<<"|">>)),
      Row4("ja4_fingerprint", Str(<<"A">>), "ja4s_fingerprint", Str(<<"B">>),
           "ja4ts_fingerprint", Str(<<>>), "ja4t_fingerprint", Str(<<"T">>)) }

InitModes ==
    /\ db_exists = TRUE
    /\ db \in SeqsUpTo(ModeRows, MaxRows)
    /\ InitEngines
    /\ InitNoEvaluation

NextModes ==
    \/ \E e \in EngineIds : Construct(e, ModeOf[e])
    \/ \E e \in EngineIds : LoadDatabase(e)
    \/ \E e \in EngineIds, q \in Queries : PredictCall(e, q)

SpecModes == InitModes /\ [][NextModes]_vars

(***************************************************************************)
(* evaluate_test_set_to_file: the dataset file and its DataFrame           *)
(***************************************************************************)
\* one element of the JSON array in the dataset file: the text of an object,
\* or text that is no JSON
Object(row) == [text |-> "object", obj |-> row]

Malformed == [text |-> "malformed"]

\* json.load(f) parses the whole file at once: the list of rows, or
\* JSONDecodeError when any of its text is no JSON
JsonLoad(file) ==
    IF \E i \in 1..Len(file) : file[i].text # "object"
    THEN [raised |-> "JSONDecodeError"]
    ELSE [raised |-> "none", data |-> [i \in 1..Len(file) |-> file[i].obj]]

\* pd.DataFrame(data): the columns are the keys of all rows, the index labels
\* are the positions in data, a cell whose row lacks the column is nan
DataFrame(data) ==
    [columns |-> UNION {DOMAIN data[i] : i \in 1..Len(data)},
     index   |-> [i \in 1..Len(data) |-> i],
     data    |-> data]

\* df.at[label, column]
Cell(df, label, column) ==
    IF column \in DOMAIN df.data[label] THEN df.data[label][column] ELSE NaN

\* pd.isna(x)
IsNa(x) == x = Null \/ x = NaN

\* the labels of s whose cell in column is neither None nor nan
RECURSIVE SelectLabels(_, _, _)
SelectLabels(df, s, column) ==
    IF s = <<>> THEN <<>>
    ELSE (IF IsNa(Cell(df, Head(s), column)) THEN <<>> ELSE <<Head(s)>>)
         \o SelectLabels(df, Tail(s), column)

\* df.dropna(subset=["application"]): KeyError when no row has the column
DropNa(df) ==
    IF "application" \notin df.columns THEN [raised |-> "KeyError"]
    ELSE [raised |-> "none",
          df |-> [df EXCEPT !.index = SelectLabels(df, df.index, "application")]]

\* row.get(key) of a row of df.iterrows(): None when df has no such column
RowGet(df, label, key) == IF key \in df.columns THEN Cell(df, label, key) ELSE Null

(***************************************************************************)
(* sklearn.model_selection.train_test_split as the harness calls it        *)
(***************************************************************************)
\* test_size=0.2, in tenths
TestSizeTenths == 2

\* random_state=42
RandomState == 42

\* rng.permutation(n) of a generator that is not seeded (random_state=None):
\* its order depends on what the process has drawn and built before
PermutationUnseeded(random_state, n) ==
    [i \in 1..n |-> ((i - 1 + Cardinality({e \in EngineIds : eng[e].st = "ready"})) % n) + 1]

\* rng.permutation(n) of the generator seeded with random_state. The order
\* numpy's generator yields is outside this repository; what the harness
\* relies on is that it is a permutation of 0..n-1 fixed by the seed and n,
\* and a rotation by the seed stands for it.
Permutation(random_state, n) == [i \in 1..n |-> ((i - 1 + random_state) % n) + 1]

RECURSIVE Sum(_)
Sum(s) == IF s = <<>> THEN 0 ELSE Head(s) + Sum(Tail(s))

\* the code points of the characters in use, in ascending order
Alphabet ==
    <<" ", "A", "B", "S", "T", "Z", "a", "d", "l", "n", "o", "u", "x", "y", "|">>

Ord(c) == CHOOSE i \in 1..Len(Alphabet) : Alphabet[i] = c

\* a < b of two str
RECURSIVE StrLess(_, _)
StrLess(a, b) ==
    IF b = <<>> THEN FALSE
    ELSE IF a = <<>> THEN TRUE
    ELSE IF Head(a) = Head(b) THEN StrLess(Tail(a), Tail(b))
    ELSE Ord(Head(a)) < Ord(Head(b))

\* np.unique(y): the distinct labels in ascending order
RECURSIVE SortedSet(_)
SortedSet(S) ==
    IF S = {} THEN <<>>
    ELSE LET least == CHOOSE a \in S : \A b \in S \ {a} : StrLess(a, b)
         IN  <<least>> \o SortedSet(S \ {least})

\* n_test = ceil(test_size * n_samples) and n_train = n_samples - n_test
NTest(test_size_tenths, n) == (test_size_tenths * n + 9) \div 10

NTrain(test_size_tenths, n) == n - NTest(test_size_tenths, n)

\* _approximate_mode(class_counts, n_draws, rng): n_draws spread over the
\* classes in proportion to their counts, the remainder going to the largest
\* fractional parts (equal ones in the generator's order, here the class order)
ApproximateMode(class_counts, n_draws) ==
    LET total == Sum(class_counts)
        K == DOMAIN class_counts
        floored == [k \in K |-> (class_counts[k] * n_draws) \div total]
        remainder == [k \in K |-> (class_counts[k] * n_draws) % total]
        need_to_add == n_draws - Sum(floored)
        ahead(k) == {j \in K : remainder[j] > remainder[k]
                               \/ (remainder[j] = remainder[k] /\ j < k)}
    IN  [k \in K |-> floored[k] + (IF Cardinality(ahead(k)) < need_to_add THEN 1 ELSE 0)]

\* s[p[1]], s[p[2]], ...
Take(s, p) == [i \in 1..Len(p) |-> s[p[i]]]

RECURSIVE Concat(_)
Concat(ss) == IF ss = <<>> THEN <<>> ELSE Head(ss) \o Concat(Tail(ss))

\* train_test_split(df, test_size, random_state): the index labels of test_df
\* in its order (ShuffleSplit: the first n_test of one permutation), or
\* ValueError when the train set would be empty
ShuffleSplit(index, test_size_tenths, random_state) ==
    LET n == Len(index)
        n_test == NTest(test_size_tenths, n)
    IN  IF NTrain(test_size_tenths, n) = 0 THEN [raised |-> "ValueError"]
        ELSE [raised |-> "none",
              test |-> Take(index, SubSeq(Permutation(random_state, n), 1, n_test))]

\* train_test_split(df, test_size, random_state, stratify=y), y[i] the label
\* of index[i] (StratifiedShuffleSplit): ValueError when the train set would be
\* empty, when a class has one member, or when the train or test set has
\* fewer rows than there are classes
StratifiedShuffleSplit(index, y, test_size_tenths, random_state) ==
    LET n == Len(index)
        n_test == NTest(test_size_tenths, n)
        n_train == NTrain(test_size_tenths, n)
        classes == SortedSet({y[i] : i \in 1..n})
        K == 1..Len(classes)
        \* the positions of each class, ascending
        members == [k \in K |-> SelectSeq([i \in 1..n |-> i], LAMBDA i : y[i] = classes[k])]
        class_counts == [k \in K |-> Len(members[k])]
    IN  IF n_train = 0 \/ (\E k \in K : class_counts[k] < 2)
           \/ n_train < Len(classes) \/ n_test < Len(classes)
        THEN [raised |-> "ValueError"]
        ELSE LET n_i == ApproximateMode(class_counts, n_train)
                 t_i == ApproximateMode([k \in K |-> class_counts[k] - n_i[k]], n_test)
                 test_of(k) ==
                     Take(members[k],
                          SubSeq(Permutation(random_state, class_counts[k]),
                                 n_i[k] + 1, n_i[k] + t_i[k]))
                 test == Concat([k \in K |-> test_of(k)])
             IN  [raised |-> "none",
                  test |-> Take(index, Take(test, Permutation(random_state, n_test)))]

(***************************************************************************)
(* evaluate_test_set_to_file(dataset_path, db_file, model_name, mode,      *)
(* output_file), one run r at a time: model_name is only printed           *)
(***************************************************************************)
\* the engine instance `db` of each run
EngineOf == ("r1" :> "e1") @@ ("r2" :> "e2") @@ ("analysis" :> "e3")

\* the literal "Unknown"
Unknown == <<"U", "n", "k", "n", "o", "w", "n">>

\* f"{x}" of an argument of predict
Format(x) == IF x = NaN THEN <<"n", "a", "n">> ELSE x.v

\* db.predict(ja4=ja4, ja4s=ja4s, ja4ts=ja4ts) with the values the harness
\* passes: a str, or nan, which is truthy, is formatted as "nan" into a
\* combined key and as the ja4_only key equals no str key of the index
PredictValues(self, ja4, ja4s, ja4ts) ==
    IF self.mode = "ja4_only" /\ ja4 = NaN THEN [result |-> "unknown"]
    ELSE Predict(self, Format(ja4), Format(ja4s), Format(ja4ts))

\* the arguments of predict for one row of test_df: nothing is stripped
HarnessQuery(df, label) ==
    [ja4   |-> PyOr(RowGet(df, label, "ja4_fingerprint"), Str(EmptyStr)),
     ja4s  |-> PyOr(RowGet(df, label, "ja4s_fingerprint"), Str(EmptyStr)),
     ja4ts |-> PyOr(PyOr(RowGet(df, label, "ja4ts_fingerprint"),
                         RowGet(df, label, "ja4t_fingerprint")), Str(EmptyStr))]

\* the loop `for m in top_matches` without its test of `cand`
RECURSIVE TopKKeepingEmpty(_, _)
TopKKeepingEmpty(top_k_list, top_matches) ==
    IF top_matches = <<>> THEN top_k_list
    ELSE LET cand == Head(top_matches)["Application"]
         IN  TopKKeepingEmpty(IF \A i \in 1..Len(top_k_list) : top_k_list[i] # cand
                              THEN Append(top_k_list, cand) ELSE top_k_list,
                              Tail(top_matches))

\* the loop `for m in top_matches` without its test of top_k_list
RECURSIVE TopKWithDuplicates(_, _)
TopKWithDuplicates(top_k_list, top_matches) ==
    IF top_matches = <<>> THEN top_k_list
    ELSE LET cand == Head(top_matches)["Application"]
         IN  TopKWithDuplicates(IF cand # EmptyStr THEN Append(top_k_list, cand)
                                ELSE top_k_list,
                                Tail(top_matches))

\* the loop `for m in top_matches`: cand is appended when it is not empty and
\* not yet in top_k_list
RECURSIVE TopK(_, _)
TopK(top_k_list, top_matches) ==
    IF top_matches = <<>> THEN top_k_list
    ELSE LET cand == Head(top_matches)["Application"]
         IN  TopK(IF cand # EmptyStr /\ \A i \in 1..Len(top_k_list) : top_k_list[i] # cand
                  THEN Append(top_k_list, cand) ELSE top_k_list,
                  Tail(top_matches))

\* the record appended to evaluated_results for one row
OutputRecord(app, res) ==
    LET top_k_list == IF res.result = "match" THEN TopK(<<>>, res.top_matches) ELSE <<>>
    IN  [true_app      |-> app,
         prediction    |-> IF top_k_list # <<>> THEN top_k_list[1] ELSE Unknown,
         top_k         |-> top_k_list,
         matches_count |-> IF res.result = "match"
                           THEN res.total_unique_combinations_found ELSE 0]

\* a harness that takes the unstratified split whatever the first attempt did
UsesFallbackAlways(stratified) == TRUE

\* `except ValueError:` around the stratified attempt
UsesFallback(stratified) == stratified.raised = "ValueError"

\* lines 160-172: the run after the dataset is read and split, or the
\* exception that ends it
SplitOutcome(file) ==
    LET loaded == JsonLoad(file)
    IN  IF loaded.raised # "none" THEN [raised |-> loaded.raised]
        ELSE LET dropped == DropNa(DataFrame(loaded.data))
             IN  IF dropped.raised # "none" THEN [raised |-> dropped.raised]
                 ELSE LET df == dropped.df
                          y == [i \in 1..Len(df.index) |-> Cell(df, df.index[i], "application").v]
                          stratified == StratifiedShuffleSplit(df.index, y, TestSizeTenths,
                                                               RandomState)
                          fallback == ShuffleSplit(df.index, TestSizeTenths, RandomState)
                          taken == IF UsesFallback(stratified) THEN fallback ELSE stratified
                      IN  IF taken.raised # "none"
                          THEN [raised |-> taken.raised, df |-> df,
                                stratify_raised |-> stratified.raised # "none",
                                fallback |-> UsesFallback(stratified)]
                          ELSE [raised |-> "none", df |-> df, test_df |-> taken.test,
                                stratify_raised |-> stratified.raised # "none",
                                fallback |-> UsesFallback(stratified)]

\* a loop over every row of df
IteratedWholeFrame(split) == split.df.index

\* the index labels `for _, row in test_df.iterrows()` visits, in its order
Iterated(split) == split.test_df

\* a harness that queries the instance as soon as it is constructed
AfterConstructSkippingLoad == "rows"

\* what follows line 176: db.load_database() on line 177
AfterConstruct == "load"

\* lines 160-172
EvalStart(r, db_file, mode) ==
    /\ ev[r].pc = "idle"
    /\ LET out == SplitOutcome(dataset)
           args == [db_file |-> db_file, mode |-> mode]
       IN  ev' = [ev EXCEPT ![r] =
                    IF out.raised # "none"
                    THEN [pc |-> "raised", args |-> args, split |-> out,
                          raised |-> out.raised]
                    ELSE [pc |-> "construct", args |-> args, split |-> out,
                          i |-> 1, calls |-> <<>>, evaluated_results |-> <<>>]]
    /\ UNCHANGED <<db, db_exists, eng, last, dataset>>

\* line 176
EvalConstruct(r) ==
    /\ ev[r].pc = "construct"
    /\ Constructed(EngineOf[r], ev[r].args.mode, ev[r].args.db_file)
    /\ ev' = [ev EXCEPT ![r] =
                IF last'.raised = "none" THEN [@ EXCEPT !.pc = AfterConstruct]
                ELSE [pc |-> "raised", args |-> @.args, split |-> @.split,
                      raised |-> last'.raised]]
    /\ UNCHANGED <<db, db_exists, dataset>>

\* line 177
EvalLoad(r) ==
    /\ ev[r].pc = "load"
    /\ Loaded(EngineOf[r])
    /\ ev' = [ev EXCEPT ![r] =
                IF last'.raised = "none" THEN [@ EXCEPT !.pc = "rows"]
                ELSE [pc |-> "raised", args |-> @.args, split |-> @.split,
                      raised |-> last'.raised]]
    /\ UNCHANGED <<db, db_exists, dataset>>

\* lines 181-214, one iteration of `for _, row in test_df.iterrows()`
EvalRow(r) ==
    /\ ev[r].pc = "rows"
    /\ ev[r].i <= Len(Iterated(ev[r].split))
    /\ LET e == EngineOf[r]
           df == ev[r].split.df
           label == Iterated(ev[r].split)[ev[r].i]
           app == IF "application" \in df.columns THEN Cell(df, label, "application")
                  ELSE Str(Unknown)
           q == HarnessQuery(df, label)
           res == PredictValues(eng[e], q.ja4, q.ja4s, q.ja4ts)
       IN  /\ last' = [op |-> "predict", e |-> e, q |-> q, res |-> res]
           /\ eng' = [eng EXCEPT ![e].index =
                        IndexAfterPredict(eng[e], Format(q.ja4), Format(q.ja4s),
                                          Format(q.ja4ts))]
           /\ ev' = [ev EXCEPT ![r].i = @ + 1,
                               ![r].calls = Append(@, [label |-> label, q |-> q, res |-> res]),
                               ![r].evaluated_results = Append(@, OutputRecord(app, res))]
    /\ UNCHANGED <<db, db_exists, dataset>>

\* lines 217-218, once the loop has ended
EvalSave(r) ==
    /\ ev[r].pc = "rows"
    /\ ev[r].i > Len(Iterated(ev[r].split))
    /\ ev' = [ev EXCEPT ![r] = [@ EXCEPT !.pc = "done"] @@
                               [output_file |-> @.evaluated_results]]
    /\ UNCHANGED <<db, db_exists, eng, last, dataset>>

(***************************************************************************)
(* One run of the harness over a dataset file and a database file          *)
(***************************************************************************)
\* rows of a dataset file: two labels on one fingerprint, a null label, a
\* padded JA4TS beside a JA4T, a JA4T alone
EvalRows ==
    { Row2("application", Str(<<"x">>), "ja4_fingerprint", Str(<<"A">>)),
      Row2("application", Str(<<"y">>), "ja4_fingerprint", Str(<<"A">>)),
      Row2("application", Null, "ja4_fingerprint", Str(<<"A">>)),
      Row4("application", Str(<<"y">>), "ja4_fingerprint", Str(<<"A">>),
           "ja4ts_fingerprint", Str(<<"S", " ">>), "ja4t_fingerprint", Str(<<"T">>)),
      Row2("application", Str(<<"x">>), "ja4t_fingerprint", Str(<<"T">>)) }

EvalEntries == {Object(row) : row \in EvalRows} \cup {Malformed}

\* the longest dataset file drawn from EvalEntries
MaxDataset == 3

\* the length of the dataset files with two labels that can be stratified
StratifiedLen == 6

\* the sequences over S of length n
SeqsOfLen(S, n) == {s \in SeqsUpTo(S, n) : Len(s) = n}

TwoLabels ==
    { Object(Row2("application", Str(<<"x">>), "ja4_fingerprint", Str(<<"A">>))),
      Object(Row2("application", Str(<<"y">>), "ja4_fingerprint", Str(<<"A">>))) }

\* database files: empty; an unlabelled combination ranked first; two
\* combinations of one application; only unlabelled rows; the fingerprints of
\* the dataset's JA4TS and JA4T rows; seven combinations on one fingerprint
EvalDbs ==
    { <<>>,
      << Row1("ja4_fingerprint", Str(<<"A">>)), Row1("ja4_fingerprint", Str(<<"A">>)),
         RankRows[1] >>,
      << RankRows[1], RankRows[3], RankRows[2] >>,
      << Row1("ja4_fingerprint", Str(<<"A">>)) >>,
      << Row4("application", Str(<<"y">>), "ja4_fingerprint", Str(<<"A">>),
              "ja4ts_fingerprint", Str(<<"S", " ">>), "ja4t_fingerprint", Str(<<"T">>)),
         Row2("application", Str(<<"x">>), "ja4t_fingerprint", Str(<<"T">>)) >>,
      << RankRows[1], RankRows[2], RankRows[3], RankRows[5], RankRows[6],
         RankRows[7], RankRows[8] >> }

InitEval ==
    /\ db_exists \in BOOLEAN
    /\ db \in (IF db_exists THEN EvalDbs ELSE {<<>>})
    /\ InitEngines
    /\ dataset \in SeqsUpTo(EvalEntries, MaxDataset) \cup SeqsOfLen(TwoLabels, StratifiedLen)
    /\ ev = [p \in Processes |-> NoRun]

NextEval ==
    \/ \E mode \in ModeArgs : EvalStart("r1", DefaultDbPath, mode)
    \/ EvalConstruct("r1")
    \/ EvalLoad("r1")
    \/ EvalRow("r1")
    \/ EvalSave("r1")

SpecEval == InitEval /\ [][NextEval]_vars

(***************************************************************************)
(* Two runs of the harness over one dataset file (main.py evaluates the    *)
(* FoxIO and the Egenlagd database on the same dataset)                    *)
(***************************************************************************)
PairEntries ==
    { Object(Row2("application", Str(<<"x">>), "ja4_fingerprint", Str(<<"A">>))),
      Object(Row2("application", Str(<<"y">>), "ja4_fingerprint", Str(<<"A">>))),
      Object(Row2("application", Null, "ja4_fingerprint", Str(<<"A">>))) }

PairModes == {"ja4_only", "ja4_ja4s_ja4ts"}

InitEvalPair ==
    /\ db_exists = TRUE
    /\ db = << RankRows[1] >>
    /\ InitEngines
    /\ dataset \in SeqsUpTo(PairEntries, MaxDataset) \cup SeqsOfLen(TwoLabels, StratifiedLen)
    /\ ev = [p \in Processes |-> NoRun]

NextEvalPair ==
    \/ \E r \in RunIds, db_file \in DbPaths, mode \in PairModes : EvalStart(r, db_file, mode)
    \/ \E r \in RunIds : EvalConstruct(r)
    \/ \E r \in RunIds : EvalLoad(r)
    \/ \E r \in RunIds : EvalRow(r)
    \/ \E r \in RunIds : EvalSave(r)

SpecEvalPair == InitEvalPair /\ [][NextEvalPair]_vars

(***************************************************************************)
(* Iteration1/iteration1.py: analyze_raw_capture(capture_file, db_file)    *)
(***************************************************************************)
modes_to_test ==
    <<"ja4_only", "ja4s_only", "ja4t_only", "ja4ts_only", "ja4_ja4s", "ja4_ja4s_ja4ts">>

\* a predict that also takes ja4t
PredictParametersWithJa4t == {"ja4", "ja4s", "ja4t", "ja4ts"}

\* the parameters of predict(self, ja4, ja4s, ja4ts)
PredictParameters == {"ja4", "ja4s", "ja4ts"}

\* the keyword arguments of the call on line 74
AnalysisKeywords == {"ja4", "ja4s", "ja4t", "ja4ts"}

\* ja4, ja4s, ja4t and ja4ts of one packet (lines 52-55)
PacketFields(row) ==
    [ja4   |-> PyOr(Get(row, "ja4"), Str(EmptyStr)).v,
     ja4s  |-> PyOr(Get(row, "ja4s"), Str(EmptyStr)).v,
     ja4t  |-> PyOr(Get(row, "ja4t"), Str(EmptyStr)).v,
     ja4ts |-> PyOr(PyOr(Get(row, "ja4ts"), Get(row, "ja4t")), Str(EmptyStr)).v]

\* fp_key (lines 57-63)
FpKey(current_mode, f) ==
    IF current_mode = "ja4_only" THEN f.ja4
    ELSE IF current_mode = "ja4s_only" THEN f.ja4s
    ELSE IF current_mode = "ja4t_only" THEN f.ja4t
    ELSE IF current_mode = "ja4ts_only" THEN f.ja4ts
    ELSE IF current_mode = "ja4_ja4s" THEN Join2(f.ja4, f.ja4s)
    ELSE Join3(f.ja4, f.ja4s, f.ja4ts)

\* `if fp_key and fp_key != "|" and fp_key != "||"`
ValidPacket(fp_key) == fp_key # EmptyStr /\ fp_key # <<"|">> /\ fp_key # <<"|", "|">>

NoStats == [unique_matches |-> 0, collisions |-> 0, unknowns |-> 0]

\* stats after one answered query (lines 76-103)
Counted(stats, res) ==
    IF res.result = "match"
    THEN IF res.total_unique_combinations_found = 1
         THEN [stats EXCEPT !.unique_matches = @ + 1]
         ELSE [stats EXCEPT !.collisions = @ + 1]
    ELSE [stats EXCEPT !.unknowns = @ + 1]

\* the run ended by an exception
Raised(run, exception) ==
    [pc |-> "raised", raised |-> exception, db_file |-> run.db_file, data |-> run.data,
     m |-> run.m, calls |-> run.calls, all_mode_stats |-> run.all_mode_stats]

\* lines 17-28
AnalyzeStart(data, db_file) ==
    /\ ev["analysis"].pc = "idle"
    /\ ev' = [ev EXCEPT !["analysis"] =
                [pc |-> "construct", db_file |-> db_file, data |-> data, m |-> 1,
                 calls |-> <<>>, all_mode_stats |-> <<>>]]
    /\ UNCHANGED <<db, db_exists, eng, last, dataset>>

\* line 35, for current_mode = modes_to_test[m]
AnalyzeConstruct ==
    /\ ev["analysis"].pc = "construct"
    /\ Instantiated(EngineOf["analysis"], modes_to_test[ev["analysis"].m],
                    ev["analysis"].db_file)
    /\ ev' = [ev EXCEPT !["analysis"] =
                IF last'.raised = "none" THEN [@ EXCEPT !.pc = "load"]
                ELSE Raised(@, last'.raised)]
    /\ UNCHANGED <<db, db_exists, dataset>>

\* lines 36-49
AnalyzeLoad ==
    /\ ev["analysis"].pc = "load"
    /\ Loaded(EngineOf["analysis"])
    /\ ev' = [ev EXCEPT !["analysis"] =
                IF last'.raised = "none"
                THEN [@ EXCEPT !.pc = "rows"] @@
                     [i |-> 1, stats |-> NoStats, valid_packets_in_mode |-> 0]
                ELSE Raised(@, last'.raised)]
    /\ UNCHANGED <<db, db_exists, dataset>>

\* lines 51-103, one iteration of `for row in data`: a packet without the
\* mode's fingerprint is skipped; the call on line 74 passes ja4t, and a
\* keyword that is no parameter of predict raises TypeError before its body
AnalyzeRow ==
    /\ ev["analysis"].pc = "rows"
    /\ ev["analysis"].i <= Len(ev["analysis"].data)
    /\ LET run == ev["analysis"]
           e == EngineOf["analysis"]
           f == PacketFields(run.data[run.i])
           fp_key == FpKey(modes_to_test[run.m], f)
           res == Predict(eng[e], f.ja4, f.ja4s, f.ja4ts)
       IN  IF ~ValidPacket(fp_key)
           THEN /\ ev' = [ev EXCEPT !["analysis"].i = @ + 1]
                /\ UNCHANGED <<eng, last>>
           ELSE IF ~(AnalysisKeywords \subseteq PredictParameters)
           THEN /\ ev' = [ev EXCEPT !["analysis"] =
                            Raised([run EXCEPT !.calls =
                                       Append(@, [m |-> run.m, i |-> run.i,
                                                  raised |-> "TypeError"])],
                                   "TypeError")]
                /\ last' = [op |-> "predict", e |-> e, raised |-> "TypeError"]
                /\ eng' = eng
           ELSE /\ ev' = [ev EXCEPT !["analysis"].i = @ + 1,
                                    !["analysis"].valid_packets_in_mode = @ + 1,
                                    !["analysis"].stats = Counted(@, res),
                                    !["analysis"].calls =
                                        Append(@, [m |-> run.m, i |-> run.i,
                                                   raised |-> "none", res |-> res])]
                /\ last' = [op |-> "predict", e |-> e, q |-> Query(f.ja4, f.ja4s, f.ja4ts),
                            res |-> res]
                /\ eng' = [eng EXCEPT ![e].index =
                             IndexAfterPredict(eng[e], f.ja4, f.ja4s, f.ja4ts)]
    /\ UNCHANGED <<db, db_exists, dataset>>

\* lines 105-137 once the loop over data has ended: the entry of the mode;
\* after the last mode the tables are printed (139-168)
AnalyzeModeEnd ==
    /\ ev["analysis"].pc = "rows"
    /\ ev["analysis"].i > Len(ev["analysis"].data)
    /\ LET run == ev["analysis"]
           entry == [mode |-> modes_to_test[run.m],
                     valid_packets |-> run.valid_packets_in_mode, stats |-> run.stats]
       IN  ev' = [ev EXCEPT !["analysis"] =
                    [pc |-> IF run.m = Len(modes_to_test) THEN "done" ELSE "construct",
                     db_file |-> run.db_file, data |-> run.data, m |-> run.m + 1,
                     calls |-> run.calls,
                     all_mode_stats |-> Append(run.all_mode_stats, entry)]]
    /\ UNCHANGED <<db, db_exists, eng, last, dataset>>

(***************************************************************************)
(* The raw-capture analysis beside one run of the harness                  *)
(***************************************************************************)
\* packets of a capture file: a JA4 alone, a JA4S alone, all of JA4, JA4S and
\* JA4T, and none
CaptureRows ==
    { Row1("ja4", Str(<<"A">>)),
      Row1("ja4s", Str(<<"B">>)),
      Row3("ja4", Str(<<"A">>), "ja4s", Str(<<"B">>), "ja4t", Str(<<"T">>)),
      <<>> }

\* the longest capture file
MaxCapture == 2

CaptureDbs ==
    { <<>>,
      << RankRows[1] >>,
      << Row4("ja4_fingerprint", Str(<<"A">>), "ja4s_fingerprint", Str(<<"B">>),
              "ja4t_fingerprint", Str(<<"T">>), "application", Str(<<"x">>)),
         RankRows[2] >> }

InitCapture ==
    /\ db_exists \in BOOLEAN
    /\ db \in (IF db_exists THEN CaptureDbs ELSE {<<>>})
    /\ InitEngines
    /\ dataset \in SeqsUpTo(TwoLabels, 2)
    /\ ev = [p \in Processes |-> NoRun]

NextCapture ==
    \/ \E data \in SeqsUpTo(CaptureRows, MaxCapture) : AnalyzeStart(data, DefaultDbPath)
    \/ AnalyzeConstruct
    \/ AnalyzeLoad
    \/ AnalyzeRow
    \/ AnalyzeModeEnd
    \/ \E mode \in ModeArgs : EvalStart("r1", DefaultDbPath, mode)
    \/ EvalConstruct("r1")
    \/ EvalLoad("r1")
    \/ EvalRow("r1")
    \/ EvalSave("r1")

SpecCapture == InitCapture /\ [][NextCapture]_vars

(***************************************************************************)
(* What the claims speak of                                                *)
(***************************************************************************)
\* the last call was predict on an instance whose one load_database completed
PredictedOnLoaded ==
    /\ last.op = "predict"
    /\ eng[last.e].loads = 1

\* the rows of the database that carry the fingerprint fields of the last query
RowsQueried == {i \in 1..Len(db) : RawQuery(db[i]) = last.q}

\* the components of a row after trimming: JA4, JA4S, JA4TS (or JA4T)
Trimmed(row) ==
    <<Field(row, "ja4_fingerprint"), Field(row, "ja4s_fingerprint"), Ja4tsField(row)>>

\* how many components the mode selects
Arity(mode) ==
    IF mode = "ja4_only" THEN 1 ELSE IF mode = "ja4_ja4s" THEN 2 ELSE 3

\* the mode's presence rule on a triple of components
Present(mode, c) == \E n \in 1..Arity(mode) : c[n] # EmptyStr

\* the mode-selected components of a triple
Selected(mode, c) == SubSeq(c, 1, Arity(mode))

\* a stored record without its count
Combination(match_dict) ==
    [k \in DOMAIN match_dict \ {"occurrences_in_database"} |-> match_dict[k]]

RECURSIVE SumOccurrences(_)
SumOccurrences(top_matches) ==
    IF top_matches = <<>> THEN 0
    ELSE Head(top_matches)["occurrences_in_database"] + SumOccurrences(Tail(top_matches))

\* the bucket the last query's key names (predict returned "match")
MatchedBucket == eng[last.e].index[TargetKey(eng[last.e].mode, last.q.ja4, last.q.ja4s, last.q.ja4ts).v]

Matched == last.op = "predict" /\ last.res.result = "match"

Occurrences(bucket, rec) == Cardinality({i \in 1..Len(bucket) : bucket[i] = rec})

Shown(res) == {Combination(res.top_matches[i]) : i \in 1..Len(res.top_matches)}

(***************************************************************************)
(* C1: a row that load_database accepted, queried by its own raw           *)
(* fingerprint fields, is a "match" that counts the row's record.          *)
(***************************************************************************)
C1_KeySymmetry ==
    PredictedOnLoaded =>
        \A i \in RowsQueried :
            Truthy(RowKey(eng[last.e].mode, db[i])) =>
                /\ last.res.result = "match"
                /\ \/ Metadata(db[i]) \in Shown(last.res)
                   \/ last.res.additional_results_count > 0

(***************************************************************************)
(* C2: load_database drops a row exactly when predict on the row's triple  *)
(* returns "unknown" with a reason, and otherwise both build the same key. *)
(***************************************************************************)
C2_SameKeyAtBuildAndQuery ==
    PredictedOnLoaded =>
        \A i \in RowsQueried :
            LET index_key  == RowKey(eng[last.e].mode, db[i])
                target_key == TargetKey(eng[last.e].mode, last.q.ja4, last.q.ja4s,
                                        last.q.ja4ts)
            IN  /\ ~Truthy(index_key) <=> "reason" \in DOMAIN last.res
                /\ Truthy(index_key) => index_key = target_key

(***************************************************************************)
(* C3: two rows get the same index key if and only if their mode-selected  *)
(* components are equal after trimming, position by position.              *)
(***************************************************************************)
C3_KeyInjective ==
    \A e \in EngineIds :
        (eng[e].st = "ready" /\ eng[e].loads = 1) =>
            \A i, j \in 1..Len(db) :
                (Truthy(RowKey(eng[e].mode, db[i])) /\ Truthy(RowKey(eng[e].mode, db[j]))) =>
                    ( RowKey(eng[e].mode, db[i]) = RowKey(eng[e].mode, db[j])
                      <=> Selected(eng[e].mode, Trimmed(db[i]))
                            = Selected(eng[e].mode, Trimmed(db[j])) )

(***************************************************************************)
(* C4: predict returns "unknown" with a reason exactly when every component *)
(* the mode requires is empty, and "unknown" without a reason exactly when *)
(* a key was built and the index does not hold it.                         *)
(***************************************************************************)
C4_UnknownOutcomesDistinct ==
    last.op = "predict" =>
        LET mode == eng[last.e].mode
            q    == <<last.q.ja4, last.q.ja4s, last.q.ja4ts>>
            key  == IF mode = "ja4_only" THEN q[1]
                    ELSE IF mode = "ja4_ja4s" THEN Join2(q[1], q[2])
                    ELSE Join3(q[1], q[2], q[3])
        IN  /\ (last.res.result = "unknown" /\ "reason" \in DOMAIN last.res)
                <=> ~Present(mode, q)
            /\ last.res = [result |-> "unknown"]
                <=> (Present(mode, q) /\ key \notin DOMAIN eng[last.e].index)

\* "unknown" with a reason from an instance whose index holds records
C4_Witness ==
    /\ PredictedOnLoaded
    /\ eng[last.e].mode = "ja4_ja4s"
    /\ DOMAIN eng[last.e].index # {}
    /\ "reason" \in DOMAIN last.res

(***************************************************************************)
(* C5: for a key with N records in K distinct combinations, predict gives  *)
(* total_unique_combinations_found = K, additional_results_count =         *)
(* max(0, K - 5), min(K, 5) top_matches, and the counts of the top_matches *)
(* plus the records of the combinations not shown add up to N.             *)
(***************************************************************************)
C5_CollisionAccounting ==
    Matched =>
        LET bucket == MatchedBucket
            N      == Len(bucket)
            K      == Cardinality({bucket[i] : i \in 1..N})
            res    == last.res
        IN  /\ res.total_unique_combinations_found = K
            /\ res.additional_results_count = (IF K > 5 THEN K - 5 ELSE 0)
            /\ Len(res.top_matches) = (IF K < 5 THEN K ELSE 5)
            /\ SumOccurrences(res.top_matches)
                 + Cardinality({i \in 1..N : bucket[i] \notin Shown(res)}) = N

\* more than five combinations, one of them met more than once
C5_Witness ==
    /\ Matched
    /\ last.res.total_unique_combinations_found > 5
    /\ last.res.additional_results_count > 0
    /\ Len(MatchedBucket) > last.res.total_unique_combinations_found

(***************************************************************************)
(* C6: top_matches is ordered by count, highest first, and no combination  *)
(* left out of it has a higher count than one in it.                       *)
(***************************************************************************)
C6_Ranking ==
    Matched =>
        LET bucket == MatchedBucket
            top    == last.res.top_matches
        IN  /\ \A i \in 1..(Len(top) - 1) :
                  top[i]["occurrences_in_database"] >= top[i + 1]["occurrences_in_database"]
            /\ \A rec \in {bucket[i] : i \in 1..Len(bucket)} \ Shown(last.res) :
                  \A i \in 1..Len(top) :
                      Occurrences(bucket, rec) <= top[i]["occurrences_in_database"]

\* a combination is left out, and the counts shown are not all the same
C6_Witness ==
    /\ Matched
    /\ last.res.additional_results_count > 0
    /\ last.res.top_matches[1]["occurrences_in_database"]
         > last.res.top_matches[5]["occurrences_in_database"]
    /\ eng[last.e].loads = 1

(***************************************************************************)
(* C7: two instances of one mode, each built by one load_database from the *)
(* same rows, answer every query with the same result.                     *)
(***************************************************************************)
BuiltAlike(a, b) ==
    /\ a # b
    /\ eng[a].st = "ready" /\ eng[b].st = "ready"
    /\ eng[a].mode = eng[b].mode
    /\ eng[a].loads = 1 /\ eng[b].loads = 1

C7_Determinism ==
    \A a, b \in EngineIds :
        BuiltAlike(a, b) =>
            /\ \A q \in Queries :
                  Predict(eng[a], q.ja4, q.ja4s, q.ja4ts) = Predict(eng[b], q.ja4, q.ja4s, q.ja4ts)
            /\ (last.op = "predict" /\ last.e = a) =>
                  Predict(eng[b], last.q.ja4, last.q.ja4s, last.q.ja4ts) = last.res

\* the second instance, built after the first, returned a "match"
C7_Witness ==
    /\ BuiltAlike("e1", "e2")
    /\ Matched
    /\ last.e = "e2"
    /\ Len(db) = 2

(***************************************************************************)
(* C8: a query that is a "match" under ja4_ja4s_ja4ts is a "match" under   *)
(* ja4_ja4s given ja4 or ja4s, and under ja4_only given ja4, on instances  *)
(* built from the same database.                                           *)
(***************************************************************************)
C8_ModeMonotonic ==
    ( /\ \A e \in EngineIds : eng[e].st = "ready" /\ eng[e].loads = 1
      /\ Matched
      /\ eng[last.e].mode = "ja4_ja4s_ja4ts" ) =>
        \A e \in EngineIds :
            /\ (eng[e].mode = "ja4_ja4s" /\ (last.q.ja4 # EmptyStr \/ last.q.ja4s # EmptyStr))
                  => Predict(eng[e], last.q.ja4, last.q.ja4s, EmptyStr).result = "match"
            /\ (eng[e].mode = "ja4_only" /\ last.q.ja4 # EmptyStr)
                  => Predict(eng[e], last.q.ja4, EmptyStr, EmptyStr).result = "match"

(***************************************************************************)
(* C9: when a row was dropped for missing key components and no row was    *)
(* indexed, predict on that row's raw fingerprint fields is "unknown".     *)
(***************************************************************************)
NothingIndexed(mode) == \A j \in 1..Len(db) : ~Present(mode, Trimmed(db[j]))

C9_DroppedRowUnknown ==
    PredictedOnLoaded =>
        \A i \in RowsQueried :
            NothingIndexed(eng[last.e].mode) => last.res.result = "unknown"

\* the dropped row holds whitespace only, so that predict builds a key for it
C9_Witness ==
    /\ PredictedOnLoaded
    /\ RowsQueried # {}
    /\ NothingIndexed(eng[last.e].mode)
    /\ last.q.ja4 # EmptyStr
    /\ last.res = [result |-> "unknown"]

(***************************************************************************)
(* C10: after load_database on a fresh instance the index holds, for each  *)
(* row whose trimmed components meet the mode's presence rule, one record  *)
(* under the row's key, in row order, and nothing for the other rows.      *)
(***************************************************************************)
KeyOf(mode, c) ==
    IF mode = "ja4_only" THEN c[1]
    ELSE IF mode = "ja4_ja4s" THEN c[1] \o <<"|">> \o c[2]
    ELSE c[1] \o <<"|">> \o c[2] \o <<"|">> \o c[3]

Accepted(mode) == {i \in 1..Len(db) : Present(mode, Trimmed(db[i]))}

\* the records of the accepted rows of key k, in row order
RECURSIVE RecordsOf(_, _, _)
RecordsOf(mode, k, rows) ==
    IF rows = <<>> THEN <<>>
    ELSE IF Present(mode, Trimmed(Head(rows))) /\ KeyOf(mode, Trimmed(Head(rows))) = k
         THEN <<Metadata(Head(rows))>> \o RecordsOf(mode, k, Tail(rows))
         ELSE RecordsOf(mode, k, Tail(rows))

C11_InvalidModeRejected ==
    LET supported == {"ja4_only", "ja4_ja4s", "ja4_ja4s_ja4ts"}
    IN  /\ \A e \in EngineIds : eng[e].st = "ready" => eng[e].mode \in supported
        /\ last.op = "init" =>
              IF last.mode \in supported
              THEN last.raised = "none" /\ eng[last.e].st = "ready"
                   /\ eng[last.e].index = EmptyIndex /\ eng[last.e].loads = 0
              ELSE last.raised = "ValueError" /\ eng[last.e] = NoEngine

\* the constructor refused ja4s_only while a database file with rows exists
C11_Witness ==
    /\ last.op = "init"
    /\ last.mode = "ja4s_only"
    /\ last.raised = "ValueError"
    /\ db # <<>>

(***************************************************************************)
(* C12: with the database file missing, load_database raises               *)
(* FileNotFoundError, the index stays empty, and every predict is          *)
(* "unknown".                                                              *)
(***************************************************************************)
C12_MissingFile ==
    ~db_exists =>
        /\ \A e \in EngineIds :
              eng[e].st = "ready" => eng[e].index = EmptyIndex /\ eng[e].loads = 0
        /\ last.op = "load_database" => last.raised = "FileNotFoundError"
        /\ last.op = "predict" => last.res.result = "unknown"

\* predict after a failed load_database: the key is built and not found
C12_Witness ==
    /\ ~db_exists
    /\ last.op = "predict"
    /\ last.res = [result |-> "unknown"]

(***************************************************************************)
(* C13: a predict call changes no key and no record of the index, and the  *)
(* same query asked again gets the same result.                            *)
(***************************************************************************)
C13_IndexReadOnly ==
    [][ last'.op = "predict" =>
            /\ eng' = eng
            /\ Predict(eng'[last'.e], last'.q.ja4, last'.q.ja4s, last'.q.ja4ts) = last'.res ]_vars

\* a "match" returned from a bucket of two records
C13_Witness ==
    /\ Matched
    /\ eng[last.e].loads = 1
    /\ Len(MatchedBucket) = 2

\* the rows of the database file of run r, and the dataset row of a call
DbRowsOf(r) == FileRows(ev[r].args.db_file)

\* run r has issued its queries (all of them once it is done)
Evaluating(r) == ev[r].pc \in {"rows", "done"}

\* C14: a database row and a dataset row with the same raw ja4ts_fingerprint
\* and ja4t_fingerprint values get the same third component: the one
\* load_database builds its key from equals the one the harness passes to
\* predict
C14_Ja4tsFallbackAlike ==
    \A r \in RunIds : Evaluating(r) =>
        \A c \in 1..Len(ev[r].calls), k \in 1..Len(DbRowsOf(r)) :
            LET row == DbRowsOf(r)[k]
                dataset_row == dataset[ev[r].calls[c].label].obj
            IN  (/\ Get(row, "ja4ts_fingerprint") = Get(dataset_row, "ja4ts_fingerprint")
                 /\ Get(row, "ja4t_fingerprint") = Get(dataset_row, "ja4t_fingerprint"))
                => Ja4tsField(row) = Format(ev[r].calls[c].q.ja4ts)

\* the Application fields of the ranked candidates predict returned to call c
\* of run r, in rank order; none when it returned 'unknown'
CandidateApps(r, c) ==
    LET res == ev[r].calls[c].res
    IN  IF res.result = "match"
        THEN [i \in 1..Len(res.top_matches) |-> res.top_matches[i]["Application"]]
        ELSE <<>>

\* the m-th smallest element of a set of numbers
Nth(S, m) == CHOOSE i \in S : Cardinality({j \in S : j < i}) = m - 1

\* the elements of apps at the positions of Kept, in ascending position
AtPositions(apps, Kept) == [m \in 1..Cardinality(Kept) |-> apps[Nth(Kept, m)]]

\* the positions of apps that repeat no earlier position
FirstOccurrences(apps) ==
    {i \in 1..Len(apps) : \A j \in 1..(i - 1) : apps[j] # apps[i]}

\* the positions of apps that hold a non-empty application
Labelled(apps) == {i \in 1..Len(apps) : apps[i] # EmptyStr}

\* C15 as stated: the prediction of every output record is the application of
\* the first ranked candidate when predict returned a candidate, and the
\* literal 'Unknown' otherwise
C15_PredictionFirstCandidate ==
    \A r \in RunIds : Evaluating(r) =>
        \A c \in 1..Len(ev[r].evaluated_results) :
            LET apps == CandidateApps(r, c)
            IN  ev[r].evaluated_results[c].prediction =
                    IF apps # <<>> THEN apps[1] ELSE Unknown

\* C15 amended: the prediction of every output record is the first non-empty
\* application among the ranked candidates predict returned, and the literal
\* 'Unknown' when predict returned no candidate or none with an application
C15_PredictionFirstLabelled ==
    \A r \in RunIds : Evaluating(r) =>
        \A c \in 1..Len(ev[r].evaluated_results) :
            LET apps == CandidateApps(r, c)
            IN  ev[r].evaluated_results[c].prediction =
                    IF Labelled(apps) # {} THEN apps[Nth(Labelled(apps), 1)] ELSE Unknown

\* a record whose first ranked candidate has no application and whose
\* prediction is the application of the second
C15_Witness ==
    /\ ev["r1"].pc = "done"
    /\ \E c \in 1..Len(ev["r1"].output_file) :
          LET apps == CandidateApps("r1", c)
          IN  /\ Len(apps) >= 2
              /\ apps[1] = EmptyStr
              /\ apps[2] # EmptyStr
              /\ ev["r1"].output_file[c].prediction = apps[2]

\* C16 as stated: top_k of every output record is the Application fields of
\* the ranked candidates in rank order with later duplicates removed and
\* nothing else; it has at most 5 entries and is empty on 'unknown'
C16_TopKDeduplicated ==
    \A r \in RunIds : Evaluating(r) =>
        \A c \in 1..Len(ev[r].evaluated_results) :
            LET apps == CandidateApps(r, c)
                top_k == ev[r].evaluated_results[c].top_k
            IN  /\ top_k = AtPositions(apps, FirstOccurrences(apps))
                /\ Len(top_k) <= TopN
                /\ ev[r].calls[c].res.result = "unknown" => top_k = <<>>

\* C16 amended: top_k of every output record is the non-empty Application
\* fields of the ranked candidates in rank order with later duplicates
\* removed and nothing else; it has at most 5 entries and is empty on
\* 'unknown'
C16_TopKLabelledDeduplicated ==
    \A r \in RunIds : Evaluating(r) =>
        \A c \in 1..Len(ev[r].evaluated_results) :
            LET apps == CandidateApps(r, c)
                top_k == ev[r].evaluated_results[c].top_k
            IN  /\ top_k = AtPositions(apps, FirstOccurrences(apps) \cap Labelled(apps))
                /\ Len(top_k) <= TopN
                /\ ev[r].calls[c].res.result = "unknown" => top_k = <<>>

\* a record made from five ranked candidates of more, one without an
\* application and one repeating an application
C16_Witness ==
    /\ ev["r1"].pc = "done"
    /\ \E c \in 1..Len(ev["r1"].output_file) :
          LET apps == CandidateApps("r1", c)
          IN  /\ Len(apps) = TopN
              /\ ev["r1"].calls[c].res.additional_results_count > 0
              /\ Labelled(apps) # 1..Len(apps)
              /\ FirstOccurrences(apps) \cap Labelled(apps) # Labelled(apps)
              /\ Len(ev["r1"].output_file[c].top_k) = 2

\* the index labels of the test partition of run r, in its order
TestPartition(r) == ev[r].split.test_df

\* the queries of run r so far are the first rows of the test partition, one
\* call each and in its order, and the records so far are theirs, one each
OneCallAndRecordPerTestRow(r) ==
    LET calls == ev[r].calls
        records == ev[r].evaluated_results
    IN  /\ Len(calls) <= Len(TestPartition(r))
        /\ \A c \in 1..Len(calls) : calls[c].label = TestPartition(r)[c]
        /\ Len(records) = Len(calls)
        /\ \A c \in 1..Len(records) :
              records[c].true_app = Cell(ev[r].split.df, TestPartition(r)[c], "application")
        /\ ev[r].pc = "done" =>
              /\ Len(calls) = Len(TestPartition(r))
              /\ ev[r].output_file = records

\* C17: the harness queries the engine once for each row of the test
\* partition, in its order, and for no other row; every query adds one
\* record for its row, whatever predict returned, and no step after the
\* database is loaded ends the run with an exception or takes a record back
C17_OneRecordPerTestRow ==
    [][ \A r \in RunIds :
            /\ Evaluating(r)' => OneCallAndRecordPerTestRow(r)'
            /\ ev[r].pc = "rows" =>
                  /\ ev'[r].pc \in {"rows", "done"}
                  /\ Len(ev'[r].calls) >= Len(ev[r].calls)
                  /\ SubSeq(ev'[r].evaluated_results, 1, Len(ev[r].evaluated_results))
                        = ev[r].evaluated_results
                  /\ Len(ev'[r].calls) > Len(ev[r].calls) =>
                        /\ Len(ev'[r].calls) = Len(ev[r].calls) + 1
                        /\ Len(ev'[r].evaluated_results) = Len(ev'[r].calls) ]_vars

\* a finished run over a dataset with training rows whose two test rows, of
\* different labels, both came back 'unknown'
C17_Witness ==
    /\ ev["r1"].pc = "done"
    /\ Len(ev["r1"].output_file) = 2
    /\ Len(ev["r1"].split.df.index) > 2
    /\ \A c \in 1..2 : ev["r1"].calls[c].res.result = "unknown"
    /\ ev["r1"].output_file[1].true_app # ev["r1"].output_file[2].true_app

\* run r has read and split the dataset
Split(r) == ev[r].pc # "idle"

Attempted(r) == Split(r) /\ "df" \in DOMAIN ev[r].split

\* the labels y of the rows of df, in index order
LabelsOf(df) == [i \in 1..Len(df.index) |-> Cell(df, df.index[i], "application").v]

\* the unstratified split is taken exactly when the stratified attempt
\* raised; a stratified split that succeeded is the partition of the run
FallbackOnlyOnFailure(r) ==
    LET split == ev[r].split
        stratified == StratifiedShuffleSplit(split.df.index, LabelsOf(split.df),
                                             TestSizeTenths, RandomState)
    IN  /\ split.fallback <=> split.stratify_raised
        /\ split.stratify_raised <=> stratified.raised # "none"
        /\ ~split.stratify_raised =>
              /\ split.raised = "none"
              /\ split.test_df = stratified.test
        /\ Evaluating(r) =>
              \A c \in 1..Len(ev[r].calls) : ev[r].calls[c].label = split.test_df[c]

Wellformed(file) == SelectSeq(file, LAMBDA entry : entry.text = "object")

\* C20: a run over a dataset file with a malformed row goes on as over the
\* file without that row: same partition of the remaining rows, no exception
\* for the malformed row, and no record for it
C20_MalformedRowSkipped ==
    \A r \in RunIds :
        (Split(r) /\ Wellformed(dataset) # dataset) =>
            /\ ev[r].split = SplitOutcome(Wellformed(dataset))
            /\ ev[r].split.raised # "JSONDecodeError"

\* the calls of predict a process has made so far
CallsOf(run) == IF "calls" \in DOMAIN run THEN run.calls ELSE <<>>

\* the index load_database builds from the whole file of an instance
FullIndex(self) == LoadRows(self.mode, EmptyIndex, FileRows(self.db_path))

\* C21: whenever the harness or the raw-capture analysis calls predict on its
\* instance, load_database has returned on that instance and the index the
\* call reads is the one built from every row of the database file
C21_BuildPrecedesQuery ==
    [][ \A p \in Processes :
            Len(CallsOf(ev'[p])) > Len(CallsOf(ev[p])) =>
                /\ eng[EngineOf[p]].st = "ready"
                /\ eng[EngineOf[p]].loads = 1
                /\ eng[EngineOf[p]].index = FullIndex(eng[EngineOf[p]]) ]_vars

\* the harness has had a query answered with a match and the analysis has
\* called predict, each on its own loaded instance
C21_Witness ==
    /\ ev["r1"].pc = "done"
    /\ Len(ev["r1"].calls) = 1
    /\ ev["r1"].calls[1].res.result = "match"
    /\ Len(CallsOf(ev["analysis"])) = 1
    /\ eng["e1"].loads = 1 /\ eng["e3"].loads = 1
    /\ eng["e1"].index # EmptyIndex

(***************************************************************************)
(* ja4_dictionary.JA4PlusDatabase, the engine of ja4_dictionary.py, which  *)
(* reads the file named by its class attribute                             *)
(***************************************************************************)
LOCAL_JSON_PATH == "ja4+_db.json"

\* (row.get(key) or "").strip() of ja4_dictionary.load_database
Ja4DictField(row, key) ==
    LET value == Get(row, key)
    IN  Strip(IF Truthy(value) THEN value.v ELSE EmptyStr)

\* (row.get("ja4ts_fingerprint") or row.get("ja4t_fingerprint") or "").strip()
Ja4DictJa4ts(row) ==
    LET ja4ts == Get(row, "ja4ts_fingerprint")
        ja4t  == Get(row, "ja4t_fingerprint")
    IN  Strip(IF Truthy(ja4ts) THEN ja4ts.v
              ELSE IF Truthy(ja4t) THEN ja4t.v
              ELSE EmptyStr)

\* index_key of ja4_dictionary.load_database for one row
Ja4DictIndexKey(mode, ja4, ja4s, ja4ts) ==
    CASE mode = "ja4_only" /\ ja4 # <<>> -> Str(ja4)
      [] mode = "ja4_ja4s" /\ ~(ja4 = <<>> /\ ja4s = <<>>) -> Str(ja4 \o <<"|">> \o ja4s)
      [] mode = "ja4_ja4s_ja4ts" /\ ~(ja4 = <<>> /\ ja4s = <<>> /\ ja4ts = <<>>)
           -> Str(ja4 \o <<"|">> \o ja4s \o <<"|">> \o ja4ts)
      [] OTHER -> Null

\* a load that keeps the raw application label
Ja4DictRecordRawApplication(row) ==
    [Application |-> PyOr(Get(row, "application"), Str(EmptyStr)).v,
     Library     |-> Ja4DictField(row, "library"),
     Device      |-> Ja4DictField(row, "device"),
     OS          |-> Ja4DictField(row, "os"),
     UserAgent   |-> Ja4DictField(row, "user_agent_string"),
     Notes       |-> Ja4DictField(row, "notes")]

\* the dict ja4_dictionary.load_database appends for one row
Ja4DictRecord(row) ==
    [Application |-> Ja4DictField(row, "application"),
     Library     |-> Ja4DictField(row, "library"),
     Device      |-> Ja4DictField(row, "device"),
     OS          |-> Ja4DictField(row, "os"),
     UserAgent   |-> Ja4DictField(row, "user_agent_string"),
     Notes       |-> Ja4DictField(row, "notes")]

\* self.index after the first n rows of `for row in data`
RECURSIVE Ja4DictIndexed(_, _, _, _)
Ja4DictIndexed(mode, index, data, n) ==
    IF n = 0 THEN index
    ELSE LET before    == Ja4DictIndexed(mode, index, data, n - 1)
             row       == data[n]
             index_key == Ja4DictIndexKey(mode, Ja4DictField(row, "ja4_fingerprint"),
                                          Ja4DictField(row, "ja4s_fingerprint"),
                                          Ja4DictJa4ts(row))
         IN  IF index_key = Null \/ index_key.v = <<>> THEN before
             ELSE [key \in DOMAIN before \cup {index_key.v} |->
                      (IF key \in DOMAIN before THEN before[key] ELSE <<>>)
                      \o (IF key = index_key.v THEN <<Ja4DictRecord(row)>> ELSE <<>>)]

\* the value ja4_dictionary.predict returns for a bucket all_matches: the
\* combinations in the order of sorted(..., reverse=True), which keeps items of
\* equal count in the order frequency_map first received them
Ja4DictMatch(all_matches) ==
    LET n         == Len(all_matches)
        firsts    == {i \in 1..n : \A j \in 1..(i - 1) : all_matches[j] # all_matches[i]}
        count(i)  == Cardinality({j \in 1..n : all_matches[j] = all_matches[i]})
        rank(i)   == 1 + Cardinality({k \in firsts : \/ count(k) > count(i)
                                                     \/ count(k) = count(i) /\ k < i})
        at(r)     == CHOOSE i \in firsts : rank(i) = r
        shown     == IF Cardinality(firsts) > 5 THEN 5 ELSE Cardinality(firsts)
    IN  [result |-> "match",
         top_matches |-> [r \in 1..shown |->
                             all_matches[at(r)] @@ ("occurrences_in_database" :> count(at(r)))],
         additional_results_count |->
             IF Cardinality(firsts) > 5 THEN Cardinality(firsts) - 5 ELSE 0,
         total_unique_combinations_found |-> Cardinality(firsts)]

\* ja4_dictionary's predict(self, ja4, ja4s, ja4ts)
Ja4DictPredict(self, ja4, ja4s, ja4ts) ==
    CASE self.mode = "ja4_only" ->
            IF ja4 = <<>>
            THEN [result |-> "unknown", reason |-> "Missing required JA4 string"]
            ELSE IF ja4 \in DOMAIN self.index THEN Ja4DictMatch(self.index[ja4])
            ELSE [result |-> "unknown"]
      [] self.mode = "ja4_ja4s" ->
            IF ja4 = <<>> /\ ja4s = <<>>
            THEN [result |-> "unknown",
                  reason |-> "Missing required JA4 or JA4S strings for this mode"]
            ELSE IF (ja4 \o <<"|">> \o ja4s) \in DOMAIN self.index
            THEN Ja4DictMatch(self.index[ja4 \o <<"|">> \o ja4s])
            ELSE [result |-> "unknown"]
      [] self.mode = "ja4_ja4s_ja4ts" ->
            IF ja4 = <<>> /\ ja4s = <<>> /\ ja4ts = <<>>
            THEN [result |-> "unknown", reason |-> "Missing required strings for this mode"]
            ELSE IF (ja4 \o <<"|">> \o ja4s \o <<"|">> \o ja4ts) \in DOMAIN self.index
            THEN Ja4DictMatch(self.index[ja4 \o <<"|">> \o ja4s \o <<"|">> \o ja4ts])
            ELSE [result |-> "unknown"]

\* JA4PlusDatabase(mode=mode) of ja4_dictionary: the instance has no db_path
Ja4DictConstruct(e, mode) ==
    /\ eng[e].st = "none"
    /\ IF mode \in {"ja4_only", "ja4_ja4s", "ja4_ja4s_ja4ts"}
       THEN /\ eng' = [eng EXCEPT ![e] = [st |-> "ready", mode |-> mode,
                                          index |-> <<>>, loads |-> 0]]
            /\ last' = [op |-> "init", e |-> e, mode |-> mode, raised |-> "none"]
       ELSE /\ eng' = eng
            /\ last' = [op |-> "init", e |-> e, mode |-> mode, raised |-> "ValueError"]
    /\ UNCHANGED <<db, db_exists, dataset, ev>>

\* ja4_dictionary's self.load_database()
Ja4DictLoadDatabase(e) ==
    /\ eng[e].st = "ready"
    /\ eng[e].loads < MaxLoads
    /\ IF ~PathExists(LOCAL_JSON_PATH)
       THEN /\ eng' = eng
            /\ last' = [op |-> "load_database", e |-> e, raised |-> "FileNotFoundError"]
       ELSE /\ eng' = [eng EXCEPT ![e].index =
                           Ja4DictIndexed(eng[e].mode, @, FileRows(LOCAL_JSON_PATH),
                                          Len(FileRows(LOCAL_JSON_PATH))),
                                  ![e].loads = @ + 1]
            /\ last' = [op |-> "load_database", e |-> e, raised |-> "none"]
    /\ UNCHANGED <<db, db_exists, dataset, ev>>

\* ja4_dictionary's self.predict(ja4, ja4s, ja4ts)
Ja4DictPredictCall(e, q) ==
    /\ eng[e].st = "ready"
    /\ last' = [op |-> "predict", e |-> e, q |-> q,
                res |-> Ja4DictPredict(eng[e], q.ja4, q.ja4s, q.ja4ts)]
    /\ UNCHANGED <<db, db_exists, eng, dataset, ev>>

(***************************************************************************)
(* The two implementations side by side over one database file: e1 is a    *)
(* dictionary_model.JA4PlusDatabase, e2 a ja4_dictionary.JA4PlusDatabase   *)
(***************************************************************************)
\* rows that fall under one key with equal and with different labels, a padded
\* row, a row with every fingerprint, and a row with none
TwinRows ==
    { Row2("ja4_fingerprint", Str(<<"A">>), "application", Str(<<"x">>)),
      Row2("ja4_fingerprint", Str(<<"A">>), "application", Str(<<"y">>)),
      Row3("ja4_fingerprint", Str(<<"A", " ">>), "application", Str(<<" ", "x">>),
           "os", Null),
      Row3("ja4_fingerprint", Null, "ja4s_fingerprint", Str(<<"B">>),
           "ja4t_fingerprint", Str(<<"T">>)),
      Row2("ja4_fingerprint", Str(<<" ">>), "notes", Str(<<"n">>)) }

\* database files of three rows whose combinations differ in count: the
\* later-seen combination outnumbers the first, and a padded row adds to the
\* count of the first
TwinRanked ==
    { << Row2("ja4_fingerprint", Str(<<"A">>), "application", Str(<<"x">>)),
         Row2("ja4_fingerprint", Str(<<"A">>), "application", Str(<<"y">>)),
         Row2("ja4_fingerprint", Str(<<"A">>), "application", Str(<<"y">>)) >>,
      << Row2("ja4_fingerprint", Str(<<"A">>), "application", Str(<<"y">>)),
         Row2("ja4_fingerprint", Str(<<"A">>), "application", Str(<<"x">>)),
         Row3("ja4_fingerprint", Str(<<"A", " ">>), "application", Str(<<" ", "x">>),
              "os", Null) >> }

TwinQueries == {RawQuery(db[i]) : i \in 1..Len(db)} \cup {Query(<<>>, <<>>, <<>>)}

InitTwin ==
    /\ db_exists \in BOOLEAN
    /\ db \in (IF db_exists THEN SeqsUpTo(TwinRows, MaxRows) \cup TwinRanked ELSE {<<>>})
    /\ InitEngines
    /\ InitNoEvaluation

NextTwin ==
    \/ \E mode \in ModeArgs : Construct("e1", mode)
    \/ LoadDatabase("e1")
    \/ \E q \in TwinQueries : PredictCall("e1", q)
    \/ \E mode \in ModeArgs : Ja4DictConstruct("e2", mode)
    \/ Ja4DictLoadDatabase("e2")
    \/ \E q \in TwinQueries : Ja4DictPredictCall("e2", q)

SpecTwin == InitTwin /\ [][NextTwin]_vars

(***************************************************************************)
(* C22: for the same database contents and the same mode, the engine of    *)
(* ja4_dictionary and the engine of dictionary_model build equal indexes   *)
(* and return equal predict results, the unknown reason included, for      *)
(* every query.                                                            *)
(***************************************************************************)
\* e1 and e2 hold the same mode and loaded the same file contents equally often
TwinsAlike ==
    /\ eng["e1"].st = "ready" /\ eng["e2"].st = "ready"
    /\ eng["e1"].mode = eng["e2"].mode
    /\ FileRows(eng["e1"].db_path) = FileRows(LOCAL_JSON_PATH)
    /\ eng["e1"].loads = eng["e2"].loads

C22_ImplementationsAgree ==
    TwinsAlike =>
        /\ eng["e1"].index = eng["e2"].index
        /\ \A q \in Queries :
              Predict(eng["e1"], q.ja4, q.ja4s, q.ja4ts)
                  = Ja4DictPredict(eng["e2"], q.ja4, q.ja4s, q.ja4ts)
        /\ (last.op = "predict" /\ last.e = "e2") =>
              last.res = Predict(eng["e1"], last.q.ja4, last.q.ja4s, last.q.ja4ts)
        /\ (last.op = "predict" /\ last.e = "e1") =>
              last.res = Ja4DictPredict(eng["e2"], last.q.ja4, last.q.ja4s, last.q.ja4ts)

\* both loaded a file of three rows once and ja4_dictionary's predict ranked
\* two combinations of one key, the later-seen one first
C22_Witness ==
    /\ TwinsAlike
    /\ eng["e1"].loads = 1
    /\ Len(db) = 3
    /\ last.op = "predict" /\ last.e = "e2"
    /\ last.res.result = "match"
    /\ Len(last.res.top_matches) = 2
    /\ last.res.top_matches[1].Application = <<"y">>
    /\ last.res.top_matches[1].occurrences_in_database = 2

(***************************************************************************)
(* random_forest_model.py: train_and_evaluate(dataset_path,                *)
(* output_result_path), the run "rf"                                       *)
(***************************************************************************)
\* s.split(sep) for a separator of one character
RECURSIVE StrSplit(_, _)
StrSplit(s, sep) ==
    IF \A i \in 1..Len(s) : s[i] # sep THEN <<s>>
    ELSE LET at == CHOOSE i \in 1..Len(s) : s[i] = sep /\ \A j \in 1..(i - 1) : s[j] # sep
         IN  <<SubSeq(s, 1, at - 1)>> \o StrSplit(SubSeq(s, at + 1, Len(s)), sep)

\* s.ljust(width, fillchar)
LJust(s, width, fillchar) ==
    IF Len(s) >= width THEN s ELSE s \o [i \in 1..(width - Len(s)) |-> fillchar]

\* parse_ja4_fingerprint(ja4_str): None unless ja4_str is a str of three parts
\* joined by "_"; the ten characters of the first part, padded, hold protocol,
\* tls_version, sni_indicator, num_ciphers, num_extensions and alpn
parse_ja4_fingerprint(ja4_str) ==
    IF ~Truthy(ja4_str) \/ ja4_str.t # "str"
       \/ (\A i \in 1..Len(ja4_str.v) : ja4_str.v[i] # "_")
    THEN Null
    ELSE LET parts == StrSplit(ja4_str.v, "_")
         IN  IF Len(parts) # 3 THEN Null
             ELSE [t |-> "dict", protocol_tls_alpn |-> LJust(parts[1], 10, "0"),
                   ciphers_hash |-> parts[2], extensions_hash |-> parts[3]]

\* valid_indices of extract_features over the rows `labels` of df: the rows
\* with a fingerprint and an application whose fingerprint parses
extract_features(df, labels) ==
    SelectSeq(labels,
              LAMBDA idx : /\ Truthy(RowGet(df, idx, "ja4_fingerprint"))
                           /\ Truthy(RowGet(df, idx, "application"))
                           /\ parse_ja4_fingerprint(RowGet(df, idx, "ja4_fingerprint")) # Null)

\* lines 59-71: the frames after the dataset is read and split, or the
\* exception that ends the run
RfSplitOutcome(file) ==
    LET loaded == JsonLoad(file)
    IN  IF loaded.raised # "none" THEN [raised |-> loaded.raised]
        ELSE LET dropped == DropNa(DataFrame(loaded.data))
             IN  IF dropped.raised # "none" THEN [raised |-> dropped.raised]
                 ELSE LET df == dropped.df
                          y == [i \in 1..Len(df.index) |-> Cell(df, df.index[i], "application").v]
                          first == StratifiedShuffleSplit(df.index, y, TestSizeTenths,
                                                          RandomState)
                          taken == IF first.raised = "ValueError"
                                   THEN ShuffleSplit(df.index, TestSizeTenths, RandomState)
                                   ELSE first
                      IN  IF taken.raised # "none" THEN [raised |-> taken.raised]
                          ELSE [raised |-> "none", df |-> df, test_df |-> taken.test,
                                train_df |->
                                    SelectSeq(df.index,
                                              LAMBDA idx : \A i \in 1..Len(taken.test) :
                                                              taken.test[i] # idx)]

\* lines 76-102: the features of the train rows and of all rows are extracted
\* and encoded and the forest is fitted; a frame built from no record has no
\* column, and selecting one of categorical_columns from it raises KeyError
RfFitOutcome(split) ==
    IF extract_features(split.df, split.df.index) = <<>>
       \/ extract_features(split.df, split.train_df) = <<>>
    THEN "KeyError"
    ELSE "none"

\* the orders in which the forest can rank the applications of df
Rankings(df) ==
    LET classes == {Cell(df, df.index[i], "application").v : i \in 1..Len(df.index)}
        shown   == IF Cardinality(classes) > 5 THEN 5 ELSE Cardinality(classes)
    IN  {s \in SeqsOfLen(classes, shown) : \A i, j \in 1..shown : s[i] = s[j] => i = j}

\* the bands of `confidence`: above 0.6, above 0.3, at most 0.3
Confidences == {"above_0_6", "above_0_3", "low"}

\* lines 110-167: the record for one test row, top_k_apps and the band of
\* confidence being what the fitted forest, a library outside this
\* repository, returned for the row
RfRecord(true_app, ja4, top_k_apps, confidence) ==
    LET parsed == IF Truthy(ja4) THEN parse_ja4_fingerprint(ja4) ELSE Null
        matches_count == IF confidence = "above_0_6" THEN 1
                         ELSE IF confidence = "above_0_3" THEN 2 ELSE 0
    IN  IF parsed = Null \/ matches_count = 0
        THEN [true_app |-> true_app, prediction |-> Unknown, top_k |-> <<>>,
              matches_count |-> 0]
        ELSE [true_app |-> true_app, prediction |-> top_k_apps[1], top_k |-> top_k_apps,
              matches_count |-> matches_count]

\* lines 58-71
RfStart ==
    /\ ev["rf"].pc = "idle"
    /\ LET out == RfSplitOutcome(dataset)
       IN  ev' = [ev EXCEPT !["rf"] =
                    IF out.raised # "none" THEN [pc |-> "raised", raised |-> out.raised]
                    ELSE [pc |-> "fit", split |-> out]]
    /\ UNCHANGED <<db, db_exists, eng, last, dataset>>

\* lines 76-102
RfFit ==
    /\ ev["rf"].pc = "fit"
    /\ ev' = [ev EXCEPT !["rf"] =
                IF RfFitOutcome(@.split) # "none"
                THEN [pc |-> "raised", raised |-> RfFitOutcome(@.split), split |-> @.split]
                ELSE [pc |-> "rows", split |-> @.split, i |-> 1, results_payload |-> <<>>]]
    /\ UNCHANGED <<db, db_exists, eng, last, dataset>>

\* lines 109-167, one iteration of `for idx, row in test_df.iterrows()`
RfRow ==
    /\ ev["rf"].pc = "rows"
    /\ ev["rf"].i <= Len(ev["rf"].split.test_df)
    /\ LET df  == ev["rf"].split.df
           idx == ev["rf"].split.test_df[ev["rf"].i]
       IN  \E top_k_apps \in Rankings(df), confidence \in Confidences :
              ev' = [ev EXCEPT !["rf"].i = @ + 1,
                               !["rf"].results_payload =
                                   Append(@, RfRecord(Cell(df, idx, "application"),
                                                      RowGet(df, idx, "ja4_fingerprint"),
                                                      top_k_apps, confidence))]
    /\ UNCHANGED <<db, db_exists, eng, last, dataset>>

\* lines 169-170, once the loop has ended
RfSave ==
    /\ ev["rf"].pc = "rows"
    /\ ev["rf"].i > Len(ev["rf"].split.test_df)
    /\ ev' = [ev EXCEPT !["rf"] = [@ EXCEPT !.pc = "done"] @@
                                  [output_file |-> @.results_payload]]
    /\ UNCHANGED <<db, db_exists, eng, last, dataset>>

(***************************************************************************)
(* The harness and the random forest over one dataset file (main.py runs   *)
(* both on the same dataset)                                               *)
(***************************************************************************)
Ja4Text == <<"t", "_", "c", "_", "e">>

\* rows of a dataset file: fingerprints that parse, one that does not, one
\* with four parts, a null label, an empty label
AlignRows ==
    { Row2("application", Str(<<"x">>), "ja4_fingerprint", Str(Ja4Text)),
      Row2("application", Str(<<"y">>), "ja4_fingerprint", Str(Ja4Text)),
      Row2("application", Str(<<"x">>), "ja4_fingerprint", Str(<<"A">>)),
      Row2("application", Str(<<"y">>), "ja4_fingerprint", Str(Ja4Text \o <<"_", "f">>)),
      Row2("application", Null, "ja4_fingerprint", Str(Ja4Text)),
      Row1("application", Str(<<>>)) }

AlignEntries == {Object(row) : row \in AlignRows}

\* two labels, the fingerprint of one of them parsing
AlignTwoLabels ==
    { Object(Row2("application", Str(<<"x">>), "ja4_fingerprint", Str(Ja4Text))),
      Object(Row2("application", Str(<<"y">>), "ja4_fingerprint", Str(<<"A">>))) }

InitAlign ==
    /\ db_exists = TRUE
    /\ db = << Row2("application", Str(<<"x">>), "ja4_fingerprint", Str(Ja4Text)) >>
    /\ InitEngines
    /\ dataset \in SeqsUpTo(AlignEntries, MaxDataset) \cup SeqsOfLen(AlignTwoLabels, StratifiedLen)
    /\ ev = [p \in Processes |-> NoRun]

NextAlign ==
    \/ EvalStart("r1", DefaultDbPath, "ja4_only")
    \/ EvalConstruct("r1")
    \/ EvalLoad("r1")
    \/ EvalRow("r1")
    \/ EvalSave("r1")
    \/ RfStart
    \/ RfFit
    \/ RfRow
    \/ RfSave

SpecAlign == InitAlign /\ [][NextAlign]_vars

(***************************************************************************)
(* C23: for the same dataset the random-forest evaluation and the          *)
(* dictionary evaluation compute the same test partition and each emit one *)
(* record per test row in the same order: once both have ended and the     *)
(* dictionary evaluation has written its output, the random forest has     *)
(* written an output of equal length with equal true_app at every          *)
(* position.                                                               *)
(***************************************************************************)
Ended(run) == run.pc \in {"done", "raised"}

TrueApps(output_file) == [i \in 1..Len(output_file) |-> output_file[i].true_app]

C23_RowAlignment ==
    (Ended(ev["r1"]) /\ Ended(ev["rf"]) /\ ev["r1"].pc = "done") =>
        /\ ev["rf"].pc = "done"
        /\ ev["rf"].split.test_df = ev["r1"].split.test_df
        /\ TrueApps(ev["rf"].output_file) = TrueApps(ev["r1"].output_file)

\* whenever both runs wrote an output the outputs are aligned row by row
C23_AlignedWhenBothWrote ==
    (ev["r1"].pc = "done" /\ ev["rf"].pc = "done") =>
        /\ ev["rf"].split.test_df = ev["r1"].split.test_df
        /\ Len(ev["rf"].output_file) = Len(ev["rf"].split.test_df)
        /\ TrueApps(ev["rf"].output_file) = TrueApps(ev["r1"].output_file)

(***************************************************************************)
(* C24: every record counted in a "match" comes from a database row whose  *)
(* mode-selected components, trimmed, all equal the query's components, an *)
(* omitted query component being empty.                                    *)
(***************************************************************************)
\* the rows of the database whose selected components are the last query's
RowsEqualToQuery ==
    {i \in 1..Len(db) :
        /\ Present(eng[last.e].mode, Trimmed(db[i]))
        /\ Selected(eng[last.e].mode, Trimmed(db[i]))
             = Selected(eng[last.e].mode, <<last.q.ja4, last.q.ja4s, last.q.ja4ts>>)}

C24_ExactMatchSound ==
    (PredictedOnLoaded /\ Matched) =>
        /\ last.res.total_unique_combinations_found
             <= Cardinality({Metadata(db[i]) : i \in RowsEqualToQuery})
        /\ \A k \in 1..Len(last.res.top_matches) :
              \E i \in RowsEqualToQuery :
                  Metadata(db[i]) = Combination(last.res.top_matches[k])

(***************************************************************************)
(* C25: analyze_raw_capture goes through the six modes of modes_to_test    *)
(* without an error: no exception other than a missing database file ends  *)
(* the run, and when the run has ended it has recorded one statistics      *)
(* entry for each of the six modes.                                        *)
(***************************************************************************)
C25_SixModesAnalysed ==
    /\ ev["analysis"].pc = "raised" => ev["analysis"].raised = "FileNotFoundError"
    /\ ev["analysis"].pc = "done" =>
          [k \in 1..Len(ev["analysis"].all_mode_stats) |-> ev["analysis"].all_mode_stats[k].mode]
             = modes_to_test

(***************************************************************************)
(* C26: among distinct combinations of one key with equal occurrence       *)
(* count, predict ranks the one whose first record appears earlier in the  *)
(* database rows ahead of the other, inside top_matches and in deciding    *)
(* which combinations fall outside the top 5.                              *)
(***************************************************************************)
\* the first row of the database that is stored under the last query's key
\* with the combination rec
FirstRow(rec) ==
    LET mode == eng[last.e].mode
        key  == TargetKey(mode, last.q.ja4, last.q.ja4s, last.q.ja4ts)
        rows == {i \in 1..Len(db) : RowKey(mode, db[i]) = key /\ Metadata(db[i]) = rec}
    IN  CHOOSE i \in rows : \A j \in rows : i <= j

\* the place of the combination rec in top_matches, 0 when it is not shown
PlaceOf(rec, top_matches) ==
    IF \E k \in 1..Len(top_matches) : Combination(top_matches[k]) = rec
    THEN CHOOSE k \in 1..Len(top_matches) : Combination(top_matches[k]) = rec
    ELSE 0

C26_TieBreakByFirstAppearance ==
    Matched =>
        LET bucket == MatchedBucket
            recs   == {bucket[i] : i \in 1..Len(bucket)}
            top    == last.res.top_matches
        IN  \A a, b \in recs :
                ( /\ Occurrences(bucket, a) = Occurrences(bucket, b)
                  /\ FirstRow(a) < FirstRow(b) ) =>
                    /\ PlaceOf(b, top) # 0 => PlaceOf(a, top) # 0
                    /\ PlaceOf(b, top) # 0 => PlaceOf(a, top) < PlaceOf(b, top)

\* two combinations of equal count are both shown, and a third of the same
\* count, first met later, is left out
C26_Witness ==
    /\ Matched
    /\ last.res.additional_results_count > 0
    /\ last.res.top_matches[4]["occurrences_in_database"]
         = last.res.top_matches[5]["occurrences_in_database"]
    /\ \E i \in 1..Len(MatchedBucket) :
          /\ PlaceOf(MatchedBucket[i], last.res.top_matches) = 0
          /\ Occurrences(MatchedBucket, MatchedBucket[i])
               = last.res.top_matches[5]["occurrences_in_database"]
    /\ last.res.top_matches[1]["occurrences_in_database"]
         > last.res.top_matches[5]["occurrences_in_database"]

(***************************************************************************)
(* C27: two records stored under one key are counted in the same           *)
(* combination exactly when their six fields are equal after               *)
(* normalization (a null, missing or whitespace-only raw value becomes the *)
(* empty string, surrounding whitespace is trimmed), and no stored field   *)
(* is null: every stored field is a str.                                   *)
(***************************************************************************)
\* s without its leading and trailing whitespace
Trim(s) ==
    LET inked == {i \in 1..Len(s) : s[i] \notin Whitespace}
    IN  IF inked = {} THEN <<>>
        ELSE SubSeq(s, CHOOSE i \in inked : \A j \in inked : i <= j,
                       CHOOSE i \in inked : \A j \in inked : j <= i)

Normalized(row, key) ==
    IF key \notin DOMAIN row THEN <<>>
    ELSE IF row[key] = Null THEN <<>>
    ELSE Trim(row[key].v)

\* the six fields of a row after normalization
NormalizedFields(row) ==
    [Application |-> Normalized(row, "application"),
     Library     |-> Normalized(row, "library"),
     Device      |-> Normalized(row, "device"),
     OS          |-> Normalized(row, "os"),
     UserAgent   |-> Normalized(row, "user_agent_string"),
     Notes       |-> Normalized(row, "notes")]

\* the rows of the database stored under the last query's key
RowsUnderKey ==
    {i \in 1..Len(db) :
        RowKey(eng[last.e].mode, db[i])
            = TargetKey(eng[last.e].mode, last.q.ja4, last.q.ja4s, last.q.ja4ts)}

IsStr(x) == DOMAIN x = 1..Len(x)

C27_GroupingByNormalizedFields ==
    /\ \A e \in EngineIds : eng[e].st = "ready" =>
          \A key \in DOMAIN eng[e].index : \A n \in 1..Len(eng[e].index[key]) :
              \A field \in DOMAIN eng[e].index[key][n] : IsStr(eng[e].index[key][n][field])
    /\ (PredictedOnLoaded /\ Matched) =>
          /\ last.res.total_unique_combinations_found
                = Cardinality({NormalizedFields(db[i]) : i \in RowsUnderKey})
          /\ \A i \in RowsUnderKey :
                LET same == {j \in RowsUnderKey : NormalizedFields(db[j]) = NormalizedFields(db[i])}
                IN  \A k \in 1..Len(last.res.top_matches) :
                       Combination(last.res.top_matches[k]) = NormalizedFields(db[i]) =>
                          last.res.top_matches[k]["occurrences_in_database"] = Cardinality(same)

\* a padded row and a plain row are counted as one combination beside a row
\* whose application is null
C27_Witness ==
    /\ PredictedOnLoaded /\ Matched
    /\ \E i, j \in RowsUnderKey :
          /\ db[i] # db[j]
          /\ Get(db[i], "application") # Get(db[j], "application")
          /\ Combination(last.res.top_matches[1]) = NormalizedFields(db[i])
          /\ NormalizedFields(db[j]) = NormalizedFields(db[i])
    /\ \E i \in RowsUnderKey : Get(db[i], "application") = Null /\ "application" \in DOMAIN db[i]
    /\ last.res.top_matches[1]["occurrences_in_database"] = 2

(***************************************************************************)
(* C28: load_database called n times on one instance over the same         *)
(* database appends every accepted row n times: for every key the          *)
(* combinations, their ranking order, total_unique_combinations_found and  *)
(* additional_results_count are those after one load, and every            *)
(* occurrences_in_database is n times its value after one load.            *)
(***************************************************************************)
\* bucket repeated n times
RECURSIVE Repeated(_, _)
Repeated(bucket, n) == IF n = 0 THEN <<>> ELSE bucket \o Repeated(bucket, n - 1)

\* the instance as one load_database leaves it
LoadedOnce(self) == [self EXCEPT !.index = FullIndex(self), !.loads = 1]

CollisionClass(r) ==
    LET matches == IF "matches_count" \in DOMAIN r THEN r.matches_count ELSE 0
    IN  IF matches = 1 THEN "unique"
        ELSE IF matches > 1 THEN "collision"
        ELSE "unknown"

C29_RecordConsistent ==
    \A r \in RunIds : Evaluating(r) =>
        \A n \in 1..Len(ev[r].evaluated_results) :
            LET rec == ev[r].evaluated_results[n]
            IN  /\ rec.matches_count = 0 <=> (rec.prediction = Unknown /\ rec.top_k = <<>>)
                /\ rec.matches_count >= 1 <=> (rec.top_k # <<>> /\ rec.prediction = rec.top_k[1])
                /\ rec.prediction = Unknown => CollisionClass(rec) = "unknown"

(***************************************************************************)
(* main.py: the pipeline, the run "main"; each step is a child process     *)
(* whose return code is its own affair                                     *)
(***************************************************************************)
\* the commands of the five run_step calls, in the order main makes them
PipelineSteps(dataset_file, foxio_db) ==
    << [step_name |-> "Build Custom Database",
        command |-> <<"python", "build_custom_db.py", "--dataset_file", dataset_file,
                      "--output_db", "egenlagd_db.json">>],
       [step_name |-> "Evaluate FoxIO (Official JA4 Database)",
        command |-> <<"python", "dictionary_model.py", "--dataset_file", dataset_file,
                      "--db_file", foxio_db, "--model_name", "FoxIO",
                      "--output_file", "Results/dictionary_FoxIO_result.json">>],
       [step_name |-> "Evaluate Egenlagd (Custom Trained Database)",
        command |-> <<"python", "dictionary_model.py", "--dataset_file", dataset_file,
                      "--db_file", "egenlagd_db.json", "--model_name", "Egenlagd",
                      "--output_file", "Results/dictionary_Egenlagd_result.json">>],
       [step_name |-> "Evaluate Random Forest Machine Learning Model",
        command |-> <<"python", "random_forest_model.py", "--dataset_file", dataset_file,
                      "--output_file", "Results/Random_Forest_result.json">>],
       [step_name |-> "Generate Comparison Graphs",
        command |-> <<"python", "Visualization/generate_comparison_graphs.py",
                      "--foxio_file", "Results/dictionary_FoxIO_result.json",
                      "--egenlagd_file", "Results/dictionary_Egenlagd_result.json",
                      "--rf_file", "Results/Random_Forest_result.json">>] >>

\* result.returncode of a child: its exit code, or minus the number of the
\* signal that ended it
ReturnCodes == {0, 1, 2, 0 - 9}

\* the exit status the operating system reports for sys.exit(code)
ExitStatus(code) == code % 256

\* a run_step that goes on whatever the child returned
StepFailedNever(returncode) == FALSE

\* `if result.returncode != 0`
StepFailed(returncode) == returncode # 0

\* lines 21-33: the arguments are parsed and the dataset file is looked for
MainStart(dataset_file, foxio_db, dataset_exists) ==
    /\ ev["main"].pc = "idle"
    /\ ev' = [ev EXCEPT !["main"] =
                [pc |-> IF dataset_exists THEN "run_step" ELSE "exited",
                 steps |-> PipelineSteps(dataset_file, foxio_db),
                 dataset_exists |-> dataset_exists,
                 started |-> <<>>, returncodes |-> <<>>, completed |-> FALSE]
                @@ (IF dataset_exists THEN <<>> ELSE [exit_status |-> ExitStatus(1)])]
    /\ UNCHANGED <<db, db_exists, eng, last, dataset>>

\* lines 7-12: run_step prints the step and starts the child
RunStepStart ==
    /\ ev["main"].pc = "run_step"
    /\ ev' = [ev EXCEPT !["main"].pc = "child",
                        !["main"].started =
                            Append(@, ev["main"].steps[Len(ev["main"].started) + 1].command)]
    /\ UNCHANGED <<db, db_exists, eng, last, dataset>>

\* line 12: subprocess.run returns when the child has ended
ChildEnds(returncode) ==
    /\ ev["main"].pc = "child"
    /\ ev' = [ev EXCEPT !["main"].pc = "returned",
                        !["main"].returncodes = Append(@, returncode)]
    /\ UNCHANGED <<db, db_exists, eng, last, dataset>>

\* lines 14-18 and the return to main: sys.exit on failure, else the next
\* step, and after the fifth the completion message on lines 110-113
RunStepEnd ==
    /\ ev["main"].pc = "returned"
    /\ LET run == ev["main"]
           returncode == run.returncodes[Len(run.returncodes)]
       IN  ev' = [ev EXCEPT !["main"] =
                    IF StepFailed(returncode)
                    THEN [run EXCEPT !.pc = "exited"] @@ [exit_status |-> ExitStatus(returncode)]
                    ELSE IF Len(run.started) < Len(run.steps)
                    THEN [run EXCEPT !.pc = "run_step"]
                    ELSE [run EXCEPT !.pc = "exited", !.completed = TRUE]
                         @@ [exit_status |-> ExitStatus(0)]]
    /\ UNCHANGED <<db, db_exists, eng, last, dataset>>

DatasetFiles == {"raw_test_samples.json", "capture.json"}

NextMain ==
    \/ \E dataset_file \in DatasetFiles, foxio_db \in DbPaths, dataset_exists \in BOOLEAN :
          MainStart(dataset_file, foxio_db, dataset_exists)
    \/ RunStepStart
    \/ \E returncode \in ReturnCodes : ChildEnds(returncode)
    \/ RunStepEnd

InitMain ==
    /\ db_exists \in BOOLEAN
    /\ db = <<>>
    /\ InitEngines
    /\ InitNoEvaluation

SpecMain == InitMain /\ [][NextMain]_vars

(***************************************************************************)
(* C30: main runs build custom database, evaluate FoxIO, evaluate          *)
(* Egenlagd, evaluate random forest, generate graphs in this order, each   *)
(* started only after the one before returned 0; when a step exits         *)
(* non-zero the pipeline exits with that code and starts no later step;    *)
(* the completion message is printed only after five successes; with the   *)
(* dataset file missing no step is started.                                *)
(***************************************************************************)
StepOrder ==
    << "build_custom_db.py", "dictionary_model.py", "dictionary_model.py",
       "random_forest_model.py", "Visualization/generate_comparison_graphs.py" >>

C30_PipelineOrdering ==
    ev["main"].pc # "idle" =>
        LET run == ev["main"]
            n   == Len(run.started)
            ret == run.returncodes
        IN  /\ n <= 5 /\ \A k \in 1..n : run.started[k][2] = StepOrder[k]
            /\ n >= 3 => run.started[3][6] = "egenlagd_db.json"
            /\ Len(ret) \in {n - 1, n} /\ n - 1 <= Len(ret)
            /\ \A k \in 2..n : ret[k - 1] = 0
            /\ \A k \in 1..Len(ret) :
                  (ret[k] # 0 /\ run.pc # "returned") =>
                      /\ run.pc = "exited" /\ n = k /\ ~run.completed
                      /\ ret[k] > 0 => run.exit_status = ret[k]
                      /\ run.exit_status # 0
            /\ run.completed <=> (run.pc = "exited" /\ Len(ret) = 5 /\ \A k \in 1..5 : ret[k] = 0)
            /\ ~run.dataset_exists =>
                  run.pc = "exited" /\ n = 0 /\ run.exit_status = 1 /\ ~run.completed

\* the third step exited with code 2 after two successes: the pipeline exited
\* with 2 and the random forest was never started
C30_Witness ==
    /\ ev["main"].pc = "exited"
    /\ ev["main"].returncodes = <<0, 0, 2>>
    /\ ev["main"].exit_status = 2
    /\ Len(ev["main"].started) = 3

====
